---- MODULE Spec2Model ----
(***************************************************************************)
(* State-machine model of the Medi_Predict front end: the doctor           *)
(* dashboard, the consultation manager, the doctor-patient chat and the    *)
(* prediction form.  Each React component is a group of variables (its     *)
(* useState cells plus the requests it has in flight), each handler or     *)
(* promise continuation one action.  `view` is the component the routing   *)
(* shell has mounted; `ev` is a history variable naming the handler that   *)
(* ran last and the input it ran on.                                       *)
(***************************************************************************)
EXTENDS Integers, Sequences, FiniteSets, Bags, TLC

VARIABLES
  view, ev, clock, tz,
  dd_activeTab, dd_consultations, dd_pendingCases, dd_loading, dd_stats,
  dd_pc, dd_consResp, dd_req, dd_issued,
  cm_consultations, cm_loading, cm_updatingStatus, cm_pc, cm_req,
  ch_pc, ch_room, ch_user, ch_messages, ch_newMessage, ch_isTyping,
  ch_typingUsers, ch_socket, ch_loading, ch_onlineUsers,
  ch_socks, ch_hist, ch_sends, ch_sent,
  srv_log, srv_next, ch_uploads, ch_fileMsgs, srv_urls,
  lg_loading, lg_error, lg_showRegister, lg_req, lg_storage, lg_logins,
  lg_issued, rg_inst, rg_loading, rg_message, rg_formData, rg_reqs,
  cr_loading, cr_error, cr_req, cr_reviewed, cr_issued, cr_form, cr_payload,
  cr_edits, lb_record, lb_shown,
  pf_pc, pf_selectedDisease, pf_formData, pf_loading, pf_diseaseInfo,
  pf_isLoadingInfo, pf_error, pf_predictionResult, pf_infoReq, pf_req,
  pf_entered, pf_onResult,
  pd_pc, pd_activeTab, pd_currentResult, pd_stats, pd_loading,
  pd_statsLoading, pd_statsInFlight, pd_statsIssued, pd_timers, pd_logouts,
  pd_childReq, pd_results

envVars == <<clock, tz>>
ddVars == <<dd_activeTab, dd_consultations, dd_pendingCases, dd_loading,
            dd_stats, dd_pc, dd_consResp, dd_req, dd_issued>>
cmVars == <<cm_consultations, cm_loading, cm_updatingStatus, cm_pc, cm_req>>
chState == <<ch_messages, ch_newMessage, ch_isTyping, ch_typingUsers,
             ch_socket, ch_loading, ch_onlineUsers>>
upVars == <<ch_uploads, ch_fileMsgs, srv_urls>>
chVars == <<ch_pc, ch_room, ch_user, chState, ch_socks, ch_hist, ch_sends,
            ch_sent, srv_log, srv_next, upVars>>
pfVars == <<pf_pc, pf_selectedDisease, pf_formData, pf_loading, pf_diseaseInfo,
            pf_isLoadingInfo, pf_error, pf_predictionResult, pf_infoReq,
            pf_req, pf_entered, pf_onResult>>
pdVars == <<pd_pc, pd_activeTab, pd_currentResult, pd_stats, pd_loading,
            pd_statsLoading, pd_statsInFlight, pd_statsIssued, pd_timers,
            pd_logouts, pd_childReq, pd_results>>
rgVars == <<rg_inst, rg_loading, rg_message, rg_formData, rg_reqs>>
lgVars == <<lg_loading, lg_error, lg_showRegister, lg_req, lg_storage,
            lg_logins, lg_issued, rgVars>>
crVars == <<cr_loading, cr_error, cr_req, cr_reviewed, cr_issued, cr_form,
            cr_payload, cr_edits>>
lbVars == <<lb_record, lb_shown>>
vars == <<view, ev, envVars, ddVars, cmVars, chVars, pfVars, pdVars, lgVars,
          crVars, lbVars>>

(***************************************************************************)
(* Bounds of the model.                                                    *)
(***************************************************************************)
MaxCons == 2
MaxCases == 1
MaxUpdates == 3
DayLen == 2
MaxDay == 2
MaxRuns == 2
MaxMsgs == 2
MaxSends == 2
MaxText == 2
MaxOnline == 2
MaxVal == 1
MaxStatsReq == 3
MaxPred == 2
MaxUploads == 2
MaxAuth == 3
MaxShows == 2
MaxReviews == 2
MaxItems == 2
MaxEdits == 3
MaxClass == 2

(***************************************************************************)
(* The history variable: the handler that ran last, on what.               *)
(***************************************************************************)
Ev(op, id, arg, outcome) ==
  [op |-> op, id |-> id, arg |-> arg, outcome |-> outcome]

Outcomes == {"ok", "fail", "throw"}

(***************************************************************************)
(* Dates.  A requested_date is what the backend sent: a string naming an   *)
(* instant, a date-only string (YYYY-MM-DD), or something Date cannot      *)
(* parse.  Time is counted in ticks, DayLen ticks to the day; tz is the    *)
(* browser's offset from UTC in ticks.                                     *)
(***************************************************************************)
NaN == -1

Instants == DayLen .. ((MaxDay + 1) * DayLen - 1)
Days == 1 .. MaxDay
TZs == {-1, 0, 1}

DateValues ==
  [kind : {"instant"}, v : Instants] \cup [kind : {"dateonly"}, v : Days]
    \cup {[kind |-> "invalid", v |-> 0]}

\* new Date(s): the instant s denotes; a date-only string is UTC midnight.
ParseDate(d) ==
  CASE d.kind = "instant" -> d.v
    [] d.kind = "dateonly" -> d.v * DayLen
    [] OTHER -> NaN

\* Date.prototype.toDateString(): the local calendar day, or "Invalid Date".
ToDateString(t, zone) ==
  IF t = NaN THEN NaN ELSE (t + zone) \div DayLen

(***************************************************************************)
(* Consultations as the backend lists them.                                *)
(***************************************************************************)
Statuses == {"pending", "confirmed", "cancelled", "completed"}

Consultation(i, s, d) == [id |-> i, status |-> s, requested_date |-> d]

\* Lists of n consultations with ids 1..n, statuses in S, dates in D.
ConsListsOf(n, S, D) ==
  {[i \in 1..n |-> Consultation(i, f[i][1], f[i][2])] : f \in [1..n -> S \X D]}

ConsLists(S, D) == UNION {ConsListsOf(n, S, D) : n \in 0..MaxCons}

CaseLists == {[i \in 1..n |-> [id |-> i]] : n \in 0..MaxCases}

\* A response of getDoctorConsultations / getPendingCases: success with the
\* list, success without one, or unsuccessful (no list).
ListResponses(L) ==
  [success : {TRUE}, has : {TRUE}, list : L]
    \cup {[success |-> TRUE, has |-> FALSE, list |-> <<>>],
          [success |-> FALSE, has |-> FALSE, list |-> <<>>]}

\* x || [] , and the default parameter value of updateStats
OrEmpty(r) == IF r.has THEN r.list ELSE <<>>

\* list.filter(P).length
CountIf(s, P(_)) == Cardinality({i \in DOMAIN s : P(s[i])})

(***************************************************************************)
(* DoctorDashboard                                                         *)
(***************************************************************************)
Tabs == {"consultations", "cases", "schedule"}

NoStats ==
  [totalPatients |-> 0, todayAppointments |-> 0, pendingReviews |-> 0,
   completedConsultations |-> 0]

IsToday(c) == ToDateString(ParseDate(c.requested_date), tz) = ToDateString(clock, tz)

IsCompleted(c) == c.status = "completed"

updateStats(consultations, cases) ==
  [totalPatients |-> Len(consultations),
   todayAppointments |-> CountIf(consultations, IsToday),
   pendingReviews |-> Len(cases),
   completedConsultations |-> CountIf(consultations, IsCompleted)]

\* PatchStatus without its test of the id.
PatchStatus_EveryRecord(list, id, status) ==
  [i \in DOMAIN list |-> [list[i] EXCEPT !.status = status]]

\* prev.map(c => c.id === id ? {...c, status} : c)
PatchStatus(list, id, status) ==
  [i \in DOMAIN list |->
     IF list[i].id = id THEN [list[i] EXCEPT !.status = status] ELSE list[i]]

\* The requests of one kind in flight are a bag (the same call may be out
\* twice).  dd_issued counts the status updates the doctor has asked for.

NoResp == [success |-> FALSE, has |-> FALSE, list |-> <<>>]

DDInit ==
  /\ dd_activeTab = "consultations"
  /\ dd_consultations = <<>>
  /\ dd_pendingCases = <<>>
  /\ dd_loading = TRUE
  /\ dd_stats = NoStats
  /\ dd_pc = "mount"
  /\ dd_consResp = NoResp
  /\ dd_req = EmptyBag
  /\ dd_issued = 0

\* useEffect(() => loadDashboardData(), []) up to the first await
DDMount ==
  /\ view = "DoctorDashboard" /\ dd_pc = "mount"
  /\ dd_loading' = TRUE
  /\ dd_pc' = "awaitConsultations"
  /\ ev' = Ev("ddMount", 0, "", "")
  /\ UNCHANGED <<view, envVars, lbVars, crVars, lgVars, pdVars, pfVars, cmVars, chVars, dd_activeTab, dd_consultations,
                 dd_pendingCases, dd_stats, dd_consResp, dd_req, dd_issued>>

\* getDoctorConsultations() threw: catch, finally
DDConsultationsThrow ==
  /\ view = "DoctorDashboard" /\ dd_pc = "awaitConsultations"
  /\ dd_loading' = FALSE
  /\ dd_pc' = "done"
  /\ ev' = Ev("ddConsultationsResp", 0, "", "throw")
  /\ UNCHANGED <<view, envVars, lbVars, crVars, lgVars, pdVars, pfVars, cmVars, chVars, dd_activeTab, dd_consultations,
                 dd_pendingCases, dd_stats, dd_consResp, dd_req, dd_issued>>

\* getDoctorConsultations() resolved: up to the second await
DDConsultationsResp(L) ==
  /\ view = "DoctorDashboard" /\ dd_pc = "awaitConsultations"
  /\ \E r \in ListResponses(L) :
       /\ dd_consultations' = IF r.success THEN OrEmpty(r) ELSE dd_consultations
       /\ dd_consResp' = r
       /\ ev' = Ev("ddConsultationsResp", 0, "", IF r.success THEN "ok" ELSE "fail")
  /\ dd_pc' = "awaitCases"
  /\ UNCHANGED <<view, envVars, lbVars, crVars, lgVars, pdVars, pfVars, cmVars, chVars, dd_activeTab, dd_pendingCases,
                 dd_loading, dd_stats, dd_req, dd_issued>>

\* getPendingCases() threw: catch, finally (updateStats is never reached)
DDCasesThrow ==
  /\ view = "DoctorDashboard" /\ dd_pc = "awaitCases"
  /\ dd_loading' = FALSE
  /\ dd_pc' = "done"
  /\ dd_consResp' = NoResp
  /\ ev' = Ev("ddCasesResp", 0, "", "throw")
  /\ UNCHANGED <<view, envVars, lbVars, crVars, lgVars, pdVars, pfVars, cmVars, chVars, dd_activeTab, dd_consultations,
                 dd_pendingCases, dd_stats, dd_req, dd_issued>>

\* getPendingCases() resolved: set the cases, compute the stats, finally
DDCasesResp ==
  /\ view = "DoctorDashboard" /\ dd_pc = "awaitCases"
  /\ \E r \in ListResponses(CaseLists) :
       /\ dd_pendingCases' = IF r.success THEN OrEmpty(r) ELSE dd_pendingCases
       /\ dd_stats' = updateStats(OrEmpty(dd_consResp), OrEmpty(r))
       /\ dd_consResp' = NoResp
       /\ ev' = Ev("ddCasesResp", 0, "", IF r.success THEN "ok" ELSE "fail")
  /\ dd_loading' = FALSE
  /\ dd_pc' = "done"
  /\ UNCHANGED <<view, envVars, lbVars, crVars, lgVars, pdVars, pfVars, cmVars, chVars, dd_activeTab, dd_consultations, dd_req, dd_issued>>

\* onClick={() => setActiveTab(tab.id)}
DDSetActiveTab ==
  /\ view = "DoctorDashboard" /\ ~dd_loading
  /\ \E t \in Tabs : dd_activeTab' = t /\ ev' = Ev("ddSetActiveTab", 0, t, "")
  /\ UNCHANGED <<view, envVars, lbVars, crVars, lgVars, pdVars, pfVars, cmVars, chVars, dd_consultations, dd_pendingCases,
                 dd_loading, dd_stats, dd_pc, dd_consResp, dd_req, dd_issued>>

\* The status buttons a consultation card renders.
DDButtons(c) ==
  CASE c.status = "pending" -> {"confirmed", "cancelled"}
    [] c.status = "confirmed" -> {"completed"}
    [] OTHER -> {}

\* handleStatusUpdate up to its await: the request leaves, holding the
\* consultations and pendingCases of the render the click happened in.
DDStatusClick ==
  /\ view = "DoctorDashboard" /\ ~dd_loading /\ dd_activeTab = "consultations"
  /\ dd_issued < MaxUpdates
  /\ dd_issued' = dd_issued + 1
  /\ \E i \in DOMAIN dd_consultations :
       \E s \in DDButtons(dd_consultations[i]) :
         /\ dd_req' = dd_req (+) SetToBag({
              [id |-> dd_consultations[i].id, status |-> s,
               cons |-> dd_consultations, cases |-> dd_pendingCases]})
         /\ ev' = Ev("ddStatusClick", 0, "", "")
  /\ UNCHANGED <<view, envVars, lbVars, crVars, lgVars, pdVars, pfVars, cmVars, chVars, dd_activeTab, dd_consultations,
                 dd_pendingCases, dd_loading, dd_stats, dd_pc, dd_consResp>>

\* handleStatusUpdate after its await, for each way the call can settle.
DDStatusSettle(r, outcome) ==
  IF outcome = "ok"
  THEN /\ dd_consultations' = PatchStatus(dd_consultations, r.id, r.status)
       /\ dd_stats' = updateStats(PatchStatus(r.cons, r.id, r.status), r.cases)
  ELSE UNCHANGED <<dd_consultations, dd_stats>>

DDStatusResp ==
  /\ view = "DoctorDashboard"
  /\ \E r \in BagToSet(dd_req), outcome \in Outcomes :
       /\ DDStatusSettle(r, outcome)
       /\ dd_req' = dd_req (-) SetToBag({r})
       /\ ev' = Ev("ddStatusResp", 0, "", outcome)
  /\ UNCHANGED <<view, envVars, lbVars, crVars, lgVars, pdVars, pfVars, cmVars, chVars, dd_activeTab, dd_pendingCases,
                 dd_loading, dd_pc, dd_consResp, dd_issued>>

(***************************************************************************)
(* ConsultationManager                                                     *)
(***************************************************************************)
CMInit ==
  /\ cm_consultations = <<>>
  /\ cm_loading = TRUE
  /\ cm_updatingStatus = {}
  /\ cm_pc = "mount"
  /\ cm_req = EmptyBag

\* useEffect(() => loadConsultations(), []) up to the await
CMMount ==
  /\ view = "ConsultationManager" /\ cm_pc = "mount"
  /\ cm_loading' = TRUE
  /\ cm_pc' = "awaitConsultations"
  /\ ev' = Ev("cmMount", 0, "", "")
  /\ UNCHANGED <<view, envVars, lbVars, crVars, lgVars, pdVars, pfVars, ddVars, chVars, cm_consultations, cm_updatingStatus, cm_req>>

\* loadConsultations after the await
CMConsultationsThrow ==
  /\ view = "ConsultationManager" /\ cm_pc = "awaitConsultations"
  /\ cm_loading' = FALSE
  /\ cm_pc' = "done"
  /\ ev' = Ev("cmConsultationsResp", 0, "", "throw")
  /\ UNCHANGED <<view, envVars, lbVars, crVars, lgVars, pdVars, pfVars, ddVars, chVars, cm_consultations, cm_updatingStatus, cm_req>>

CMConsultationsResp(L) ==
  /\ view = "ConsultationManager" /\ cm_pc = "awaitConsultations"
  /\ \E r \in ListResponses(L) :
       /\ cm_consultations' = IF r.success THEN OrEmpty(r) ELSE cm_consultations
       /\ ev' = Ev("cmConsultationsResp", 0, "", IF r.success THEN "ok" ELSE "fail")
  /\ cm_loading' = FALSE
  /\ cm_pc' = "done"
  /\ UNCHANGED <<view, envVars, lbVars, crVars, lgVars, pdVars, pfVars, ddVars, chVars, cm_updatingStatus, cm_req>>

\* Rows whose buttons stay enabled while an update is in flight.
CMButtons_NeverDisabled(c) ==
  CASE c.status = "pending" -> {"confirmed", "cancelled"}
    [] c.status = "confirmed" -> {"completed"}
    [] OTHER -> {}

\* The status buttons a row renders; all are disabled while updatingStatus[id].
CMButtons(c) ==
  IF c.id \in cm_updatingStatus THEN {}
  ELSE CASE c.status = "pending" -> {"confirmed", "cancelled"}
         [] c.status = "confirmed" -> {"completed"}
         [] OTHER -> {}

\* handleStatusUpdate up to its await (a falsy id returns at once)
CMStatusClick ==
  /\ view = "ConsultationManager" /\ ~cm_loading
  /\ \E i \in DOMAIN cm_consultations :
       \E s \in CMButtons(cm_consultations[i]) :
         /\ cm_consultations[i].id # 0
         /\ cm_updatingStatus' = cm_updatingStatus \cup {cm_consultations[i].id}
         /\ cm_req' = cm_req (+) SetToBag({
              [id |-> cm_consultations[i].id, status |-> s]})
         /\ ev' = Ev("cmStatusClick", 0, "", "")
  /\ UNCHANGED <<view, envVars, lbVars, crVars, lgVars, pdVars, pfVars, ddVars, chVars, cm_consultations, cm_loading, cm_pc>>

\* handleStatusUpdate after its await, for each way the call can settle.
CMStatusSettle(r, outcome) ==
  IF outcome = "ok"
  THEN cm_consultations' = PatchStatus(cm_consultations, r.id, r.status)
  ELSE UNCHANGED cm_consultations

\* A continuation without the finally block: a failed call leaves
\* updatingStatus[id] set.
CMStatusResp_NoFinally ==
  /\ view = "ConsultationManager"
  /\ \E r \in BagToSet(cm_req), outcome \in Outcomes :
       /\ CMStatusSettle(r, outcome)
       /\ cm_updatingStatus' = IF outcome = "throw" THEN cm_updatingStatus
                               ELSE cm_updatingStatus \ {r.id}
       /\ cm_req' = cm_req (-) SetToBag({r})
       /\ ev' = Ev("cmStatusResp", 0, "", outcome)
  /\ UNCHANGED <<view, envVars, lbVars, crVars, lgVars, pdVars, pfVars, ddVars, chVars, cm_loading, cm_pc>>

\* handleStatusUpdate's continuation; finally clears updatingStatus[id].
CMStatusResp ==
  /\ view = "ConsultationManager"
  /\ \E r \in BagToSet(cm_req), outcome \in Outcomes :
       /\ CMStatusSettle(r, outcome)
       /\ cm_updatingStatus' = cm_updatingStatus \ {r.id}
       /\ cm_req' = cm_req (-) SetToBag({r})
       /\ ev' = Ev("cmStatusResp", 0, "", outcome)
  /\ UNCHANGED <<view, envVars, lbVars, crVars, lgVars, pdVars, pfVars, ddVars, chVars, cm_loading, cm_pc>>

(***************************************************************************)
(* DoctorPatientChat                                                       *)
(*                                                                         *)
(* ch_socks[n] is the socket the n-th run of the socket effect opened and  *)
(* ch_hist[n] the history fetch that run issued; the last run is the       *)
(* current one.  srv_log[r] is the backend's message log of room r.  A     *)
(* component that has unmounted keeps no state: the setters its pending    *)
(* continuations call do nothing.                                          *)
(***************************************************************************)
NoRoom == 0
Rooms == {1, 2}
LocalUsers == {1}
RemoteUsers == {2, 3}

Chars == {" ", "a"}
Texts == UNION {[1..n -> Chars] : n \in 0..MaxText}

RECURSIVE TrimStart(_)
TrimStart(t) ==
  IF t # <<>> /\ Head(t) = " " THEN TrimStart(Tail(t)) ELSE t

RECURSIVE TrimEnd(_)
TrimEnd(t) ==
  IF t # <<>> /\ t[Len(t)] = " " THEN TrimEnd(SubSeq(t, 1, Len(t) - 1)) ELSE t

\* String.prototype.trim()
Trim(t) == TrimEnd(TrimStart(t))

Mounted == ch_pc = "live"
CurRun == Len(ch_socks)

\* What the component renders the message form in.
FormRendered == Mounted /\ ~ch_loading /\ ch_room # NoRoom

NewSocket(room) ==
  [room |-> room, state |-> "connecting", disconnects |-> 0,
   joins |-> 0, leaves |-> 0, inbox |-> <<>>]

\* A cleanup that leaves the room and keeps the connection.
Cleanup_NoDisconnect(sock) ==
  [sock EXCEPT !.leaves = IF sock.room # NoRoom THEN @ + 1 ELSE @]

\* The effect's cleanup on the socket its run opened: leave, then disconnect.
\* A disconnected socket receives nothing more.
Cleanup(sock) ==
  [sock EXCEPT !.leaves = IF sock.room # NoRoom THEN @ + 1 ELSE @,
               !.state = "closed",
               !.disconnects = @ + 1,
               !.inbox = <<>>]

\* loadChatMessages up to its await, called by the effect run for `room`:
\* with a room the fetch leaves and loading is raised; without one the try
\* block is empty and finally lowers loading at once.
NewFetch(room) ==
  [room |-> room, state |-> IF room # NoRoom THEN "sent" ELSE "none", snap |-> <<>>]

\* The body of the socket effect for `room`, `socks` being the sockets the
\* earlier runs opened: io(), setSocket(newSocket), loadChatMessages().
RunEffect(socks, room) ==
  /\ ch_socks' = Append(socks, NewSocket(room))
  /\ ch_socket' = Len(socks) + 1
  /\ ch_hist' = Append(ch_hist, NewFetch(room))
  /\ ch_loading' = (room # NoRoom)

ChatInit ==
  /\ ch_pc = "mount"
  /\ ch_room \in Rooms \cup {NoRoom}
  /\ ch_user \in LocalUsers
  /\ ch_messages = <<>>
  /\ ch_newMessage = <<>>
  /\ ch_isTyping = FALSE
  /\ ch_typingUsers = <<>>
  /\ ch_socket = 0
  /\ ch_loading = TRUE
  /\ ch_onlineUsers = <<>>
  /\ ch_socks = <<>>
  /\ ch_hist = <<>>
  /\ ch_sends = EmptyBag
  /\ ch_sent = 0
  /\ srv_log = [r \in Rooms |-> <<>>]
  /\ srv_next = 1
  /\ ch_uploads = <<>>
  /\ ch_fileMsgs = <<>>
  /\ srv_urls = 0

\* The first run of the socket effect.
ChatMount ==
  /\ view = "DoctorPatientChat" /\ ch_pc = "mount"
  /\ ch_pc' = "live"
  /\ RunEffect(ch_socks, ch_room)
  /\ ev' = Ev("chMount", 1, "", "")
  /\ UNCHANGED <<view, envVars, lbVars, crVars, lgVars, pdVars, pfVars, ddVars, cmVars, upVars, ch_room, ch_user, ch_messages,
                 ch_newMessage, ch_isTyping, ch_typingUsers, ch_onlineUsers,
                 ch_sends, ch_sent, srv_log, srv_next>>

\* consultation.chat_room_id or user.id changes: the cleanup of the current
\* run, then the effect again.
ChatDepsChange ==
  /\ view = "DoctorPatientChat" /\ Mounted /\ CurRun < MaxRuns
  /\ \E room \in Rooms \cup {NoRoom}, user \in LocalUsers :
       /\ <<room, user>> # <<ch_room, ch_user>>
       /\ ch_room' = room /\ ch_user' = user
       /\ RunEffect([ch_socks EXCEPT ![CurRun] = Cleanup(@)], room)
  /\ ev' = Ev("chDepsChange", CurRun + 1, "", "")
  /\ UNCHANGED <<view, envVars, lbVars, crVars, lgVars, pdVars, pfVars, ddVars, cmVars, upVars, ch_pc, ch_messages,
                 ch_newMessage, ch_isTyping, ch_typingUsers, ch_onlineUsers,
                 ch_sends, ch_sent, srv_log, srv_next>>

\* The component unmounts: the cleanup of the current run.
ChatUnmount ==
  /\ view = "DoctorPatientChat" /\ Mounted
  /\ ch_pc' = "unmounted"
  /\ ch_socks' = [ch_socks EXCEPT ![CurRun] = Cleanup(@)]
  /\ ev' = Ev("chUnmount", CurRun, "", "")
  /\ UNCHANGED <<view, envVars, lbVars, crVars, lgVars, pdVars, pfVars, ddVars, cmVars, upVars, ch_room, ch_user, chState,
                 ch_hist, ch_sends, ch_sent, srv_log, srv_next>>

\* 'connect' on the socket of run n: join the room the run was opened for.
ChatConnect ==
  /\ view = "DoctorPatientChat"
  /\ \E n \in DOMAIN ch_socks :
       /\ ch_socks[n].state = "connecting"
       /\ ch_socks' = [ch_socks EXCEPT
            ![n].state = "connected",
            ![n].joins = IF ch_socks[n].room # NoRoom THEN @ + 1 ELSE @]
       /\ ev' = Ev("chConnect", n, "", "")
  /\ UNCHANGED <<view, envVars, lbVars, crVars, lgVars, pdVars, pfVars, ddVars, cmVars, upVars, ch_pc, ch_room, ch_user, chState,
                 ch_hist, ch_sends, ch_sent, srv_log, srv_next>>

\* The backend stores message srv_next in room r and tells every socket that
\* has joined r.
Broadcast(socks, r, m) ==
  [n \in DOMAIN socks |->
     IF socks[n].state = "connected" /\ socks[n].room = r
     THEN [socks[n] EXCEPT !.inbox = Append(@, m)]
     ELSE socks[n]]

\* The other party posts a message to room r.
SrvRemotePost ==
  /\ view = "DoctorPatientChat" /\ ch_pc # "mount" /\ srv_next <= MaxMsgs
  /\ \E r \in Rooms :
       /\ srv_log' = [srv_log EXCEPT ![r] = Append(@, srv_next)]
       /\ ch_socks' = Broadcast(ch_socks, r, srv_next)
  /\ srv_next' = srv_next + 1
  /\ ev' = Ev("srvRemotePost", 0, "", "")
  /\ UNCHANGED <<view, envVars, lbVars, crVars, lgVars, pdVars, pfVars, ddVars, cmVars, upVars, ch_pc, ch_room, ch_user, chState,
                 ch_hist, ch_sends, ch_sent>>

\* newSocket.on('new_message', ...) of run n
ChatNewMessage ==
  /\ view = "DoctorPatientChat"
  /\ \E n \in DOMAIN ch_socks :
       /\ ch_socks[n].state = "connected" /\ ch_socks[n].inbox # <<>>
       /\ ch_messages' = IF Mounted THEN Append(ch_messages, Head(ch_socks[n].inbox))
                                    ELSE ch_messages
       /\ ch_socks' = [ch_socks EXCEPT ![n].inbox = Tail(@)]
       /\ ev' = Ev("chNewMessage", n, "", "")
  /\ UNCHANGED <<view, envVars, lbVars, crVars, lgVars, pdVars, pfVars, ddVars, cmVars, upVars, ch_pc, ch_room, ch_user,
                 ch_newMessage, ch_isTyping, ch_typingUsers, ch_socket,
                 ch_loading, ch_onlineUsers,
                 ch_hist, ch_sends, ch_sent, srv_log, srv_next>>

\* An update that appends without removing the user's earlier entry.
TypingUpdate_NoFilter(prev, uid, typing) ==
  IF typing THEN Append(prev, uid) ELSE SelectSeq(prev, LAMBDA u : u # uid)

\* prev => typing ? [...prev.filter(u => u.user_id !== id), data]
\*                : prev.filter(u => u.user_id !== id)
TypingUpdate(prev, uid, typing) ==
  LET rest == SelectSeq(prev, LAMBDA u : u # uid)
  IN IF typing THEN Append(rest, uid) ELSE rest

\* newSocket.on('user_typing', ...) of run n, for an event about user uid
ChatUserTyping ==
  /\ view = "DoctorPatientChat"
  /\ \E n \in DOMAIN ch_socks, uid \in LocalUsers \cup RemoteUsers, typing \in BOOLEAN :
       /\ ch_socks[n].state = "connected"
       /\ ch_typingUsers' = IF Mounted /\ uid # ch_user
                            THEN TypingUpdate(ch_typingUsers, uid, typing)
                            ELSE ch_typingUsers
       /\ ev' = Ev("chUserTyping", uid, "", IF typing THEN "true" ELSE "false")
  /\ UNCHANGED <<view, envVars, lbVars, crVars, lgVars, pdVars, pfVars, ddVars, cmVars, upVars, ch_pc, ch_room, ch_user,
                 ch_messages, ch_newMessage, ch_isTyping, ch_socket,
                 ch_loading, ch_onlineUsers, ch_socks,
                 ch_hist, ch_sends, ch_sent, srv_log, srv_next>>

\* newSocket.on('user_joined', ...) of run n
ChatUserJoined ==
  /\ view = "DoctorPatientChat" /\ Len(ch_onlineUsers) < MaxOnline
  /\ \E n \in DOMAIN ch_socks, uid \in RemoteUsers :
       /\ ch_socks[n].state = "connected"
       /\ ch_onlineUsers' = IF Mounted THEN Append(ch_onlineUsers, uid)
                                       ELSE ch_onlineUsers
       /\ ev' = Ev("chUserJoined", uid, "", "")
  /\ UNCHANGED <<view, envVars, lbVars, crVars, lgVars, pdVars, pfVars, ddVars, cmVars, upVars, ch_pc, ch_room, ch_user,
                 ch_messages, ch_newMessage, ch_isTyping, ch_typingUsers,
                 ch_socket, ch_loading, ch_socks,
                 ch_hist, ch_sends, ch_sent, srv_log, srv_next>>

\* The backend answers the history request of run n: the room's log as it
\* is now, an unsuccessful response, or an error.
SrvHistory ==
  /\ view = "DoctorPatientChat"
  /\ \E n \in DOMAIN ch_hist, outcome \in Outcomes :
       /\ ch_hist[n].state = "sent"
       /\ ch_hist' = [ch_hist EXCEPT
            ![n].state = outcome,
            ![n].snap = IF outcome = "ok" THEN srv_log[ch_hist[n].room] ELSE <<>>]
  /\ ev' = Ev("srvHistory", 0, "", "")
  /\ UNCHANGED <<view, envVars, lbVars, crVars, lgVars, pdVars, pfVars, ddVars, cmVars, upVars, ch_pc, ch_room, ch_user, chState,
                 ch_socks, ch_sends, ch_sent, srv_log, srv_next>>

\* A continuation without the finally block: a failed fetch leaves loading.
HistorySettle_NoFinally(f) ==
  /\ ch_messages' = IF Mounted /\ f.state = "ok" THEN f.snap ELSE ch_messages
  /\ ch_loading' = IF Mounted /\ f.state # "throw" THEN FALSE ELSE ch_loading

\* loadChatMessages after its await, for the fetch f of some run.
HistorySettle(f) ==
  /\ ch_messages' = IF Mounted /\ f.state = "ok" THEN f.snap ELSE ch_messages
  /\ ch_loading' = IF Mounted THEN FALSE ELSE ch_loading

ChatHistoryResp ==
  /\ view = "DoctorPatientChat"
  /\ \E n \in DOMAIN ch_hist :
       /\ ch_hist[n].state \in Outcomes
       /\ HistorySettle(ch_hist[n])
       /\ ch_hist' = [ch_hist EXCEPT ![n].state = "done", ![n].snap = <<>>]
       /\ ev' = Ev("chHistoryResp", n, "", ch_hist[n].state)
  /\ UNCHANGED <<view, envVars, lbVars, crVars, lgVars, pdVars, pfVars, ddVars, cmVars, upVars, ch_pc, ch_room, ch_user,
                 ch_newMessage, ch_isTyping, ch_typingUsers, ch_socket,
                 ch_onlineUsers, ch_socks, ch_sends, ch_sent,
                 srv_log, srv_next>>

\* handleTyping(typing) of a render whose `socket` is sock and whose room is
\* room: the flag is set, and the event emitted when there is a socket and
\* a room.
HandleTyping(typing, sock, room) ==
  /\ ch_isTyping' = IF Mounted THEN typing ELSE ch_isTyping

\* What handleTyping emits: 'typing' when there is a socket and a room.
TypingEmit(sock, room) == IF sock # 0 /\ room # NoRoom THEN "typing" ELSE ""

\* onChange of the input
ChatInputChange ==
  /\ view = "DoctorPatientChat" /\ FormRendered
  /\ \E t \in Texts :
       /\ ch_newMessage' = t
       /\ HandleTyping(Len(t) > 0, ch_socket, ch_room)
       /\ ev' = Ev("chInputChange", 0, TypingEmit(ch_socket, ch_room), "")
  /\ UNCHANGED <<view, envVars, lbVars, crVars, lgVars, pdVars, pfVars, ddVars, cmVars, upVars, ch_pc, ch_room, ch_user,
                 ch_messages, ch_typingUsers, ch_socket, ch_loading,
                 ch_onlineUsers, ch_socks, ch_hist, ch_sends, ch_sent,
                 srv_log, srv_next>>

\* onBlur of the input
ChatInputBlur ==
  /\ view = "DoctorPatientChat" /\ FormRendered
  /\ HandleTyping(FALSE, ch_socket, ch_room)
  /\ ev' = Ev("chInputBlur", 0, TypingEmit(ch_socket, ch_room), "")
  /\ UNCHANGED <<view, envVars, lbVars, crVars, lgVars, pdVars, pfVars, ddVars, cmVars, upVars, ch_pc, ch_room, ch_user,
                 ch_messages, ch_newMessage, ch_typingUsers, ch_socket,
                 ch_loading, ch_onlineUsers, ch_socks, ch_hist, ch_sends,
                 ch_sent, srv_log, srv_next>>

\* A quick-response template button: setNewMessage(<a fixed sentence>)
ChatTemplate ==
  /\ view = "DoctorPatientChat" /\ FormRendered
  /\ ch_newMessage' = <<"a">>
  /\ ev' = Ev("chTemplate", 0, "", "")
  /\ UNCHANGED <<view, envVars, lbVars, crVars, lgVars, pdVars, pfVars, ddVars, cmVars, upVars, ch_pc, ch_room, ch_user,
                 ch_messages, ch_isTyping, ch_typingUsers, ch_socket,
                 ch_loading, ch_onlineUsers, ch_socks, ch_hist, ch_sends,
                 ch_sent, srv_log, srv_next>>

\* A guard that looks at the raw text.
CanSend_NoTrim(text, room) == text # <<>> /\ room # NoRoom

\* if (!newMessage.trim() || !consultation.chat_room_id) return;
CanSend(text, room) == Trim(text) # <<>> /\ room # NoRoom

\* handleSendMessage up to its await: nothing on a blank input or without
\* a room, else the request leaves, holding the room and the socket of the
\* render the form was submitted in.
ChatSubmit ==
  /\ view = "DoctorPatientChat" /\ FormRendered
  /\ IF CanSend(ch_newMessage, ch_room)
     THEN /\ ch_sent < MaxSends
          /\ ch_sent' = ch_sent + 1
          /\ ch_sends' = ch_sends (+) SetToBag({
               [room |-> ch_room, content |-> Trim(ch_newMessage),
                sock |-> ch_socket, state |-> "sent"]})
     ELSE UNCHANGED <<ch_sends, ch_sent>>
  /\ ev' = Ev("chSubmit", 0, "", IF CanSend(ch_newMessage, ch_room) THEN "sent" ELSE "")
  /\ UNCHANGED <<view, envVars, lbVars, crVars, lgVars, pdVars, pfVars, ddVars, cmVars, upVars, ch_pc, ch_room, ch_user, chState,
                 ch_socks, ch_hist, srv_log, srv_next>>

\* The backend handles a send: it stores the message and tells the room, or
\* answers unsuccessfully, or the call fails.
SrvSend ==
  /\ view = "DoctorPatientChat"
  /\ \E r \in BagToSet(ch_sends), outcome \in Outcomes :
       /\ r.state = "sent"
       /\ ch_sends' = (ch_sends (-) SetToBag({r}))
                         (+) SetToBag({[r EXCEPT !.state = outcome, !.content = <<>>]})
       /\ IF outcome = "ok"
          THEN /\ srv_next <= MaxMsgs
               /\ srv_log' = [srv_log EXCEPT ![r.room] = Append(@, srv_next)]
               /\ ch_socks' = Broadcast(ch_socks, r.room, srv_next)
               /\ srv_next' = srv_next + 1
          ELSE UNCHANGED <<srv_log, ch_socks, srv_next>>
  /\ ev' = Ev("srvSend", 0, "", "")
  /\ UNCHANGED <<view, envVars, lbVars, crVars, lgVars, pdVars, pfVars, ddVars, cmVars, upVars, ch_pc, ch_room, ch_user, chState,
                 ch_hist, ch_sent>>

\* A settle that also appends the sent message to the local list.
SendSettle_LocalAppend(r) ==
  IF r.state = "ok"
  THEN /\ ch_newMessage' = IF Mounted THEN <<>> ELSE ch_newMessage
       /\ HandleTyping(FALSE, r.sock, r.room)
       /\ ch_messages' = Append(ch_messages, 0)
  ELSE UNCHANGED <<ch_newMessage, ch_isTyping, ch_messages>>

\* A settle that clears the input and forgets the typing flag.
SendSettle_KeepTyping(r) ==
  IF r.state = "ok"
  THEN /\ ch_newMessage' = IF Mounted THEN <<>> ELSE ch_newMessage
       /\ UNCHANGED <<ch_isTyping, ch_messages>>
  ELSE UNCHANGED <<ch_newMessage, ch_isTyping, ch_messages>>

\* handleSendMessage after its await, for the settled request r.
SendSettle(r) ==
  IF r.state = "ok"
  THEN /\ ch_newMessage' = IF Mounted THEN <<>> ELSE ch_newMessage
       /\ HandleTyping(FALSE, r.sock, r.room)
       /\ UNCHANGED ch_messages
  ELSE UNCHANGED <<ch_newMessage, ch_isTyping, ch_messages>>

SendEmit(r) == IF r.state = "ok" THEN TypingEmit(r.sock, r.room) ELSE ""

ChatSendResp ==
  /\ view = "DoctorPatientChat"
  /\ \E r \in BagToSet(ch_sends) :
       /\ r.state \in Outcomes
       /\ SendSettle(r)
       /\ ch_sends' = ch_sends (-) SetToBag({r})
       /\ ev' = Ev("chSendResp", r.sock, SendEmit(r), r.state)
  /\ UNCHANGED <<view, envVars, lbVars, crVars, lgVars, pdVars, pfVars, ddVars, cmVars, upVars, ch_pc, ch_room, ch_user,
                 ch_typingUsers, ch_socket, ch_loading,
                 ch_onlineUsers, ch_socks, ch_hist, ch_sent, srv_log, srv_next>>


\* No file URL.
NoUrl == 0

\* e.target.files[0]: a file, or none when the dialog is cancelled.
Files == {"none", "doc"}

\* handleFileUpload up to its first await: nothing without a file or a
\* room, else uploadChatFile(file, room) leaves.
ChatFileSelect ==
  /\ view = "DoctorPatientChat" /\ FormRendered
  /\ \E file \in Files :
       /\ IF file = "none" \/ ch_room = NoRoom
          THEN UNCHANGED ch_uploads
          ELSE /\ Len(ch_uploads) < MaxUploads
               /\ ch_uploads' = Append(ch_uploads,
                    [room |-> ch_room, state |-> "sent", url |-> NoUrl])
       /\ ev' = Ev("chFileSelect", 0, file, "")
  /\ UNCHANGED <<view, envVars, lbVars, crVars, lgVars, pdVars, pfVars, ddVars, cmVars, ch_pc, ch_room, ch_user,
                 chState, ch_socks, ch_hist, ch_sends, ch_sent, srv_log, srv_next,
                 ch_fileMsgs, srv_urls>>

\* The backend answers upload n: it stores the file under a fresh URL, or
\* answers unsuccessfully, or the call fails.
SrvUpload ==
  /\ view = "DoctorPatientChat"
  /\ \E n \in DOMAIN ch_uploads, outcome \in Outcomes :
       /\ ch_uploads[n].state = "sent"
       /\ ch_uploads' = [ch_uploads EXCEPT
            ![n].state = outcome,
            ![n].url = IF outcome = "ok" THEN srv_urls + 1 ELSE NoUrl]
       /\ srv_urls' = IF outcome = "ok" THEN srv_urls + 1 ELSE srv_urls
  /\ ev' = Ev("srvUpload", 0, "", "")
  /\ UNCHANGED <<view, envVars, lbVars, crVars, lgVars, pdVars, pfVars, ddVars, cmVars, ch_pc, ch_room, ch_user,
                 chState, ch_socks, ch_hist, ch_sends, ch_sent, srv_log, srv_next,
                 ch_fileMsgs>>

\* A continuation that posts the follow-up message whatever the upload did.
UploadSettle_SendAlways(n) ==
  /\ ch_fileMsgs' = Append(ch_fileMsgs,
       [upload |-> n, room |-> ch_uploads[n].room, url |-> ch_uploads[n].url,
        state |-> "sent"])
  /\ ch_uploads' = [ch_uploads EXCEPT
       ![n].state = IF ch_uploads[n].state = "ok" THEN "messaged" ELSE "dropped"]

\* handleFileUpload after uploadChatFile: on success
\* sendMessage(room, text, 'file', uploadResponse.file_url) leaves; else
\* nothing.
UploadSettle(n) ==
  IF ch_uploads[n].state = "ok"
  THEN /\ ch_fileMsgs' = Append(ch_fileMsgs,
            [upload |-> n, room |-> ch_uploads[n].room, url |-> ch_uploads[n].url,
             state |-> "sent"])
       /\ ch_uploads' = [ch_uploads EXCEPT ![n].state = "messaged"]
  ELSE /\ ch_uploads' = [ch_uploads EXCEPT ![n].state = "dropped"]
       /\ UNCHANGED ch_fileMsgs

ChatUploadResp ==
  /\ view = "DoctorPatientChat"
  /\ \E n \in DOMAIN ch_uploads :
       /\ ch_uploads[n].state \in Outcomes
       /\ UploadSettle(n)
       /\ ev' = Ev("chUploadResp", n, "", ch_uploads[n].state)
  /\ UNCHANGED <<view, envVars, lbVars, crVars, lgVars, pdVars, pfVars, ddVars, cmVars, ch_pc, ch_room, ch_user,
                 chState, ch_socks, ch_hist, ch_sends, ch_sent, srv_log, srv_next,
                 srv_urls>>

\* The backend handles the follow-up message k: it stores it and tells the
\* room, or the call fails; handleFileUpload does nothing after this await.
SrvFileMessage ==
  /\ view = "DoctorPatientChat"
  /\ \E k \in DOMAIN ch_fileMsgs, outcome \in Outcomes :
       /\ ch_fileMsgs[k].state = "sent"
       /\ IF outcome = "ok"
          THEN /\ srv_next <= MaxMsgs
               /\ srv_log' = [srv_log EXCEPT ![ch_fileMsgs[k].room] = Append(@, srv_next)]
               /\ ch_socks' = Broadcast(ch_socks, ch_fileMsgs[k].room, srv_next)
               /\ srv_next' = srv_next + 1
               /\ ch_fileMsgs' = [ch_fileMsgs EXCEPT ![k].state = "stored"]
          ELSE /\ ch_fileMsgs' = [ch_fileMsgs EXCEPT ![k].state = "lost"]
               /\ UNCHANGED <<srv_log, ch_socks, srv_next>>
  /\ ev' = Ev("srvFileMessage", 0, "", "")
  /\ UNCHANGED <<view, envVars, lbVars, crVars, lgVars, pdVars, pfVars, ddVars, cmVars, ch_pc, ch_room, ch_user,
                 chState, ch_hist, ch_sends, ch_sent, ch_uploads, srv_urls>>

(***************************************************************************)
(* PredictionForm                                                          *)
(***************************************************************************)
Diseases == {"anemia", "malaria"}

\* A field of a disease's schema: its name and the type of its control.
\* Fields are named by their place, so two diseases share field names.
Field(i, t) == [name |-> i, type |-> t]
FieldsOf(types) == [i \in 1..Len(types) |-> Field(i, types[i])]

\* The schemas the catalog can hold: the control types the form renders
\* (select, file, and <input type={field.type}> for the rest).
Schemas == {FieldsOf(<<"number", "select">>), FieldsOf(<<"text", "file">>)}

\* What getDiseaseInfo can answer with: result.diseases
Catalogs == UNION {[D -> Schemas] : D \in {{"anemia", "malaria"}, {"malaria"}}}

\* useState({})
NoInfo == [d \in {} |-> <<>>]

\* What a control hands to handleInputChange.  A string is blank (""), a
\* decimal numeral ("0", "1", ...), letters only ("abc"), a numeral followed
\* by letters ("1abc") or the word "Infinity"; a file control hands over a
\* File, or undefined when the dialog is cancelled.
Str(k, v) == [kind |-> k, v |-> v]
Blank == Str("blank", 0)
Undefined == Str("undefined", 0)
Numerals(from) == {Str("numeral", v) : v \in from..MaxVal}

\* e.target.value of the control of a field of that type; a number input's
\* value is "" or a numeral, a select's is "" or the value of an option.
ValuesOf(type) ==
  CASE type = "number" -> {Blank} \cup Numerals(0)
    [] type = "select" -> {Blank} \cup Numerals(1)
    [] type = "file"   -> {Str("file", 0), Undefined}
    [] OTHER           -> {Blank} \cup Numerals(0)
                            \cup {Str("letters", 0), Str("prefixed", MaxVal),
                                  Str("infinity", 0)}

\* JavaScript numbers: the finite ones, Infinity and NaN.
Fin(v) == [fin |-> TRUE, v |-> v]
Infinity == [fin |-> FALSE, v |-> 1]
NotANumber == [fin |-> FALSE, v |-> 0]

\* parseFloat(value): the longest numeric prefix of String(value), NaN
\* when there is none.
ParseFloat(x) ==
  CASE x.kind \in {"numeral", "prefixed"} -> Fin(x.v)
    [] x.kind = "infinity" -> Infinity
    [] OTHER -> NotANumber

\* n || 0: NaN and 0 are falsy.
OrZero(n) == IF n = NotANumber \/ n = Fin(0) THEN Fin(0) ELSE n

\* formData[field.name]
Lookup(formData, name) ==
  IF name \in DOMAIN formData THEN formData[name].val ELSE Undefined

\* currentDisease.fields.map(field => parseFloat(formData[field.name]) || 0)
Features(fields, formData) ==
  [i \in 1..Len(fields) |-> OrZero(ParseFloat(Lookup(formData, fields[i].name)))]

\* {...prev, [fieldName]: value}
Put(prev, k, x) == [n \in DOMAIN prev \cup {k} |-> IF n = k THEN x ELSE prev[n]]

NoForm == [n \in {} |-> Undefined]
NoResult == [disease |-> "", prediction |-> -1]
NoReq == [state |-> "none", disease |-> "", features |-> <<>>, prediction |-> -1]

\* The component shows the form: past the loading, retry and
\* could-not-load returns.
RetryRendered ==
  pf_pc = "live" /\ ~pf_isLoadingInfo /\ pf_error # "" /\ DOMAIN pf_diseaseInfo = {}
UnknownDiseaseRendered ==
  /\ pf_pc = "live" /\ ~pf_isLoadingInfo /\ ~RetryRendered
  /\ pf_selectedDisease \notin DOMAIN pf_diseaseInfo
PFFormRendered ==
  /\ pf_pc = "live" /\ ~pf_isLoadingInfo /\ ~RetryRendered
  /\ pf_selectedDisease \in DOMAIN pf_diseaseInfo

PFInit ==
  /\ pf_pc = "mount"
  /\ pf_selectedDisease = "anemia"
  /\ pf_formData = NoForm
  /\ pf_loading = FALSE
  /\ pf_diseaseInfo = NoInfo
  /\ pf_isLoadingInfo = TRUE
  /\ pf_error = ""
  /\ pf_predictionResult = NoResult
  /\ pf_infoReq = "none"
  /\ pf_req = NoReq
  /\ pf_entered = {}
  /\ pf_onResult = NoResult

\* The two effects of the first render: loadDiseaseInfo up to its await,
\* then the reset effect.
PFMount ==
  /\ view = "PredictionForm" /\ pf_pc = "mount"
  /\ pf_pc' = "live"
  /\ pf_isLoadingInfo' = TRUE
  /\ pf_infoReq' = "sent"
  /\ pf_formData' = NoForm /\ pf_predictionResult' = NoResult /\ pf_error' = ""
  /\ ev' = Ev("pfMount", 0, "", "")
  /\ UNCHANGED <<view, envVars, lbVars, crVars, lgVars, pdVars, ddVars, cmVars, chVars, pf_onResult, pf_selectedDisease,
                 pf_loading, pf_diseaseInfo, pf_req, pf_entered>>

\* loadDiseaseInfo after its await
PFInfoResp ==
  /\ view = "PredictionForm" /\ pf_infoReq = "sent"
  /\ \E outcome \in Outcomes :
       /\ \/ outcome = "ok" /\ pf_diseaseInfo' \in Catalogs /\ UNCHANGED pf_error
          \/ outcome = "fail" /\ pf_error' = "load_failed" /\ UNCHANGED pf_diseaseInfo
          \/ outcome = "throw" /\ pf_error' = "connect" /\ UNCHANGED pf_diseaseInfo
       /\ ev' = Ev("pfInfoResp", 0, "", outcome)
  /\ pf_isLoadingInfo' = FALSE
  /\ pf_infoReq' = "none"
  /\ UNCHANGED <<view, envVars, lbVars, crVars, lgVars, pdVars, ddVars, cmVars, chVars, pf_onResult, pf_pc, pf_selectedDisease,
                 pf_formData, pf_loading, pf_predictionResult, pf_req, pf_entered>>

\* The Retry Loading button: loadDiseaseInfo up to its await
PFRetry ==
  /\ view = "PredictionForm" /\ RetryRendered
  /\ pf_isLoadingInfo' = TRUE
  /\ pf_error' = ""
  /\ pf_infoReq' = "sent"
  /\ ev' = Ev("pfRetry", 0, "", "")
  /\ UNCHANGED <<view, envVars, lbVars, crVars, lgVars, pdVars, ddVars, cmVars, chVars, pf_onResult, pf_pc, pf_selectedDisease,
                 pf_formData, pf_loading, pf_diseaseInfo, pf_predictionResult,
                 pf_req, pf_entered>>

\* A reset effect that keeps the form values.
ResetEffect_KeepForm(d) ==
  IF d # pf_selectedDisease
  THEN pf_predictionResult' = NoResult /\ pf_error' = "" /\ UNCHANGED pf_formData
  ELSE UNCHANGED <<pf_formData, pf_predictionResult, pf_error>>

\* useEffect(..., [selectedDisease]) after setSelectedDisease(d): it runs
\* when the value has changed, before the next event is handled.
ResetEffect(d) ==
  IF d # pf_selectedDisease
  THEN pf_formData' = NoForm /\ pf_predictionResult' = NoResult /\ pf_error' = ""
  ELSE UNCHANGED <<pf_formData, pf_predictionResult, pf_error>>

Changed(d) == IF d # pf_selectedDisease THEN 1 ELSE 0

\* handleDiseaseSelect, from one of the disease buttons
PFDiseaseSelect ==
  /\ view = "PredictionForm" /\ PFFormRendered
  /\ \E d \in DOMAIN pf_diseaseInfo :
       /\ pf_selectedDisease' = d
       /\ ResetEffect(d)
       /\ ev' = Ev("pfDiseaseSelect", Changed(d), d, "")
  /\ UNCHANGED <<view, envVars, lbVars, crVars, lgVars, pdVars, ddVars, cmVars, chVars, pf_onResult, pf_pc, pf_loading,
                 pf_diseaseInfo, pf_isLoadingInfo, pf_infoReq, pf_req, pf_entered>>

\* The Reset to Anemia button: setSelectedDisease('anemia')
PFResetToAnemia ==
  /\ view = "PredictionForm" /\ UnknownDiseaseRendered
  /\ pf_selectedDisease' = "anemia"
  /\ ResetEffect("anemia")
  /\ ev' = Ev("pfResetToAnemia", Changed("anemia"), "anemia", "")
  /\ UNCHANGED <<view, envVars, lbVars, crVars, lgVars, pdVars, ddVars, cmVars, chVars, pf_onResult, pf_pc, pf_loading,
                 pf_diseaseInfo, pf_isLoadingInfo, pf_infoReq, pf_req, pf_entered>>

\* handleInputChange(fieldName, value) from the control of a field of the
\* selected disease.  Each value carries the selection it was entered under.
PFInputChange ==
  /\ view = "PredictionForm" /\ PFFormRendered
  /\ \E i \in DOMAIN pf_diseaseInfo[pf_selectedDisease] :
       LET field == pf_diseaseInfo[pf_selectedDisease][i]
       IN \E value \in ValuesOf(field.type) :
            pf_formData' = Put(pf_formData, field.name,
                               [val |-> value, under |-> pf_selectedDisease])
  /\ pf_entered' = pf_entered \cup {pf_selectedDisease}
  /\ ev' = Ev("pfInputChange", 0, "", "")
  /\ UNCHANGED <<view, envVars, lbVars, crVars, lgVars, pdVars, ddVars, cmVars, chVars, pf_onResult, pf_pc, pf_selectedDisease,
                 pf_loading, pf_diseaseInfo, pf_isLoadingInfo, pf_error,
                 pf_predictionResult, pf_infoReq, pf_req>>

\* handleSubmit up to its await; the submit button is disabled while loading.
PFSubmit ==
  /\ view = "PredictionForm" /\ PFFormRendered /\ ~pf_loading
  /\ pf_loading' = TRUE
  /\ pf_error' = ""
  /\ pf_predictionResult' = NoResult
  /\ pf_req' = [state |-> "sent", disease |-> pf_selectedDisease,
                features |-> Features(pf_diseaseInfo[pf_selectedDisease], pf_formData),
                prediction |-> -1]
  /\ ev' = Ev("pfSubmit", 0, pf_selectedDisease, "")
  /\ UNCHANGED <<view, envVars, lbVars, crVars, lgVars, pdVars, ddVars, cmVars, chVars, pf_onResult, pf_pc, pf_selectedDisease,
                 pf_formData, pf_diseaseInfo, pf_isLoadingInfo, pf_infoReq,
                 pf_entered>>

\* The backend answers the prediction: a prediction, an unsuccessful or
\* incomplete response, or an error.
SrvPredict ==
  /\ view = "PredictionForm" /\ pf_req.state = "sent"
  /\ \E outcome \in Outcomes, p \in {0, 1} :
       pf_req' = [pf_req EXCEPT !.state = outcome, !.features = <<>>,
                                !.prediction = IF outcome = "ok" THEN p ELSE -1]
  /\ ev' = Ev("srvPredict", 0, "", "")
  /\ UNCHANGED <<view, envVars, lbVars, crVars, lgVars, pdVars, ddVars, cmVars, chVars, pf_onResult, pf_pc, pf_selectedDisease,
                 pf_formData, pf_loading, pf_diseaseInfo, pf_isLoadingInfo,
                 pf_error, pf_predictionResult, pf_infoReq, pf_entered>>

\* A settle that forwards to onResult whatever the response was.
PredictSettle_ForwardAlways(r) ==
  /\ pf_onResult' = [disease |-> r.disease, prediction |-> r.prediction]
  /\ \/ /\ r.state = "ok"
        /\ pf_predictionResult' = [disease |-> r.disease, prediction |-> r.prediction]
        /\ UNCHANGED pf_error
     \/ /\ r.state # "ok"
        /\ pf_error' = "invalid"
        /\ UNCHANGED pf_predictionResult

\* handleSubmit after its await, for the settled call r: the prediction is
\* stored and handed to onResult (pf_onResult is the argument of the last
\* call), or the error is set.
PredictSettle(r) ==
  \/ /\ r.state = "ok"
     /\ pf_predictionResult' = [disease |-> r.disease, prediction |-> r.prediction]
     /\ pf_onResult' = [disease |-> r.disease, prediction |-> r.prediction]
     /\ UNCHANGED pf_error
  \/ /\ r.state = "fail"
     /\ pf_error' = "invalid"
     /\ UNCHANGED <<pf_predictionResult, pf_onResult>>
  \/ /\ r.state = "throw"
     /\ pf_error' = "predict_failed"
     /\ UNCHANGED <<pf_predictionResult, pf_onResult>>

\* The calls of onResult the continuation makes.
OnResultCalls(r) == IF r.state = "ok" THEN 1 ELSE 0

PFPredictResp ==
  /\ view = "PredictionForm" /\ pf_req.state \in Outcomes
  /\ PredictSettle(pf_req)
  /\ pf_loading' = FALSE
  /\ pf_req' = NoReq
  /\ ev' = Ev("pfPredictResp", OnResultCalls(pf_req), pf_req.disease, pf_req.state)
  /\ UNCHANGED <<view, envVars, lbVars, crVars, lgVars, pdVars, ddVars, cmVars, chVars, pf_pc, pf_selectedDisease,
                 pf_formData, pf_diseaseInfo, pf_isLoadingInfo, pf_infoReq,
                 pf_entered>>

(***************************************************************************)
(* PatientDashboard                                                        *)
(***************************************************************************)
PDTabs == {"predict", "history", "consultations"}

\* The stats card: the prediction count, and where lastCheckup and
\* favoriteModel were taken from.
Stats(n, lastCheckup, favoriteModel) ==
  [totalPredictions |-> n, lastCheckup |-> lastCheckup, favoriteModel |-> favoriteModel]

\* useState({totalPredictions: 0, ..., lastCheckup: 'Never', favoriteModel: 'Loading...'})
InitialStats == Stats(0, "Never", "Loading...")

\* result.stats of a successful getPatientStats
ServerStats == {Stats(n, "server", "server") : n \in 0..MaxPred}

\* mockStats: Math.floor(Math.random() * 15) + 1 predictions, a random
\* lastCheckup and favoriteModel
MockStats == {Stats(n, "mock", "mock") : n \in 1..MaxPred}

\* What the prediction form hands to onResult.
PredictionResults == {[disease |-> d, prediction |-> p] : d \in Diseases, p \in {0, 1}}

\* What checkSession can do: resolve authenticated, resolve unauthenticated
\* or unsuccessful, or reject with an HTTP status (0: no response).
SessionOutcomes ==
  {[outcome |-> "ok", status |-> 200], [outcome |-> "unauth", status |-> 200],
   [outcome |-> "fail", status |-> 200]}
    \cup {[outcome |-> "throw", status |-> st] : st \in {0, 401, 404, 500}}

\* A catch that looks for status 401 only.
ForcesLogout_Only401(r) ==
  \/ r.outcome \in {"unauth", "fail"}
  \/ r.outcome = "throw" /\ r.status = 401

\* !sessionCheck.success || !sessionCheck.authenticated, or the catch's
\* error.response?.status === 401 || ... === 404
ForcesLogout(r) ==
  \/ r.outcome \in {"unauth", "fail"}
  \/ r.outcome = "throw" /\ r.status \in {401, 404}

PDInit ==
  /\ pd_pc = "mount"
  /\ pd_activeTab = "predict"
  /\ pd_currentResult = NoResult
  /\ pd_stats = InitialStats
  /\ pd_loading = TRUE
  /\ pd_statsLoading = FALSE
  /\ pd_statsInFlight = 0
  /\ pd_statsIssued = 0
  /\ pd_timers = 0
  /\ pd_logouts = 0
  /\ pd_childReq = 0
  /\ pd_results = 0

\* The dashboard is on screen: past the loading return, not logged out.
PDRendered == pd_pc = "done" /\ ~pd_loading

\* loadPatientStats up to its await
LoadPatientStats ==
  /\ pd_statsLoading' = TRUE
  /\ pd_statsInFlight' = pd_statsInFlight + 1
  /\ pd_statsIssued' = pd_statsIssued + 1

\* useEffect -> initializeDashboard up to its await
PDMount ==
  /\ view = "PatientDashboard" /\ pd_pc = "mount"
  /\ pd_pc' = "awaitSession"
  /\ ev' = Ev("pdMount", 0, "", "")
  /\ UNCHANGED <<view, envVars, lbVars, crVars, lgVars, ddVars, cmVars, chVars, pfVars, pd_activeTab,
                 pd_currentResult, pd_stats, pd_loading, pd_statsLoading,
                 pd_statsInFlight, pd_statsIssued, pd_timers, pd_logouts,
                 pd_childReq, pd_results>>

\* initializeDashboard after checkSession: logout and return, or the stats
\* load (loading stays up until it settles), or the catch; finally.
PDSessionResp ==
  /\ view = "PatientDashboard" /\ pd_pc = "awaitSession"
  /\ \E r \in SessionOutcomes :
       /\ IF r.outcome = "ok"
          THEN /\ LoadPatientStats
               /\ pd_pc' = "awaitStats"
               /\ UNCHANGED <<pd_logouts, pd_loading>>
          ELSE /\ pd_logouts' = IF ForcesLogout(r) THEN pd_logouts + 1 ELSE pd_logouts
               /\ pd_pc' = IF ForcesLogout(r) THEN "loggedOut" ELSE "done"
               /\ pd_loading' = FALSE
               /\ UNCHANGED <<pd_statsLoading, pd_statsInFlight, pd_statsIssued>>
       /\ ev' = Ev("pdSessionResp", r.status, "", r.outcome)
  /\ UNCHANGED <<view, envVars, lbVars, crVars, lgVars, ddVars, cmVars, chVars, pfVars, pd_activeTab,
                 pd_currentResult, pd_stats, pd_timers, pd_childReq, pd_results>>

\* loadPatientStats after its await: the server's stats on success, the mock
\* stats otherwise; finally.  The call made by initializeDashboard is
\* awaited there, and its finally lowers loading.
PDStatsResp ==
  /\ view = "PatientDashboard" /\ pd_statsInFlight > 0
  /\ \E outcome \in Outcomes :
       /\ pd_stats' \in IF outcome = "ok" THEN ServerStats ELSE MockStats
       /\ ev' = Ev("pdStatsResp", 0, "", outcome)
  /\ pd_statsLoading' = FALSE
  /\ pd_statsInFlight' = pd_statsInFlight - 1
  /\ pd_loading' = IF pd_pc = "awaitStats" THEN FALSE ELSE pd_loading
  /\ pd_pc' = IF pd_pc = "awaitStats" THEN "done" ELSE pd_pc
  /\ UNCHANGED <<view, envVars, lbVars, crVars, lgVars, ddVars, cmVars, chVars, pfVars, pd_activeTab,
                 pd_currentResult, pd_statsIssued, pd_timers, pd_logouts,
                 pd_childReq, pd_results>>

\* handleRefreshStats: the button is disabled while statsLoading
PDRefreshStats ==
  /\ view = "PatientDashboard" /\ PDRendered
  /\ ~pd_statsLoading /\ pd_statsIssued < MaxStatsReq
  /\ LoadPatientStats
  /\ ev' = Ev("pdRefreshStats", 0, "", "")
  /\ UNCHANGED <<view, envVars, lbVars, crVars, lgVars, ddVars, cmVars, chVars, pfVars, pd_pc, pd_activeTab,
                 pd_currentResult, pd_stats, pd_loading, pd_timers, pd_logouts,
                 pd_childReq, pd_results>>

\* A tab change that reloads the stats.
PDTabChange_Refetch ==
  /\ view = "PatientDashboard" /\ PDRendered
  /\ \E tabId \in PDTabs :
       /\ pd_activeTab' = tabId
       /\ pd_currentResult' = IF tabId # "predict" THEN NoResult ELSE pd_currentResult
       /\ ev' = Ev("pdTabChange", 0, tabId, "")
  /\ LoadPatientStats
  /\ UNCHANGED <<view, envVars, lbVars, crVars, lgVars, ddVars, cmVars, chVars, pfVars, pd_pc, pd_stats,
                 pd_loading, pd_timers, pd_logouts, pd_childReq, pd_results>>

\* handleTabChange(tabId)
PDTabChange ==
  /\ view = "PatientDashboard" /\ PDRendered
  /\ \E tabId \in PDTabs :
       /\ pd_activeTab' = tabId
       /\ pd_currentResult' = IF tabId # "predict" THEN NoResult ELSE pd_currentResult
       /\ ev' = Ev("pdTabChange", 0, tabId, "")
  /\ UNCHANGED <<view, envVars, lbVars, crVars, lgVars, ddVars, cmVars, chVars, pfVars, pd_pc, pd_stats,
                 pd_loading, pd_statsLoading, pd_statsInFlight, pd_statsIssued,
                 pd_timers, pd_logouts, pd_childReq, pd_results>>

\* The PredictionForm of the predict tab submits: a predictDisease call is
\* in flight whose continuation holds handlePredictionResult as onResult.
PDChildSubmit ==
  /\ view = "PatientDashboard" /\ PDRendered /\ pd_activeTab = "predict"
  /\ pd_childReq + pd_results < MaxPred
  /\ pd_childReq' = pd_childReq + 1
  /\ ev' = Ev("pdChildSubmit", 0, "", "")
  /\ UNCHANGED <<view, envVars, lbVars, crVars, lgVars, ddVars, cmVars, chVars, pfVars, pd_pc, pd_activeTab,
                 pd_currentResult, pd_stats, pd_loading, pd_statsLoading,
                 pd_statsInFlight, pd_statsIssued, pd_timers, pd_logouts,
                 pd_results>>

\* The form's call settles without a prediction: onResult is not called.
PDChildNoResult ==
  /\ view = "PatientDashboard" /\ pd_childReq > 0
  /\ pd_childReq' = pd_childReq - 1
  /\ ev' = Ev("pdChildNoResult", 0, "", "")
  /\ UNCHANGED <<view, envVars, lbVars, crVars, lgVars, ddVars, cmVars, chVars, pfVars, pd_pc, pd_activeTab,
                 pd_currentResult, pd_stats, pd_loading, pd_statsLoading,
                 pd_statsInFlight, pd_statsIssued, pd_timers, pd_logouts,
                 pd_results>>

\* handlePredictionResult(result), called by the form's continuation
\* whichever tab is shown by then
PDHandlePredictionResult ==
  /\ view = "PatientDashboard" /\ pd_childReq > 0
  /\ pd_childReq' = pd_childReq - 1
  /\ pd_results' = pd_results + 1
  /\ pd_currentResult' \in PredictionResults
  /\ pd_stats' = [pd_stats EXCEPT !.totalPredictions = @ + 1, !.lastCheckup = "today"]
  /\ pd_timers' = pd_timers + 1
  /\ ev' = Ev("pdHandlePredictionResult", 0, "", "")
  /\ UNCHANGED <<view, envVars, lbVars, crVars, lgVars, ddVars, cmVars, chVars, pfVars, pd_pc, pd_activeTab,
                 pd_loading, pd_statsLoading, pd_statsInFlight, pd_statsIssued,
                 pd_logouts>>

\* The 1500 ms timer of handlePredictionResult fires: loadPatientStats
PDTimerFire ==
  /\ view = "PatientDashboard" /\ pd_timers > 0 /\ pd_statsIssued < MaxStatsReq
  /\ pd_timers' = pd_timers - 1
  /\ LoadPatientStats
  /\ ev' = Ev("pdTimerFire", 0, "", "")
  /\ UNCHANGED <<view, envVars, lbVars, crVars, lgVars, ddVars, cmVars, chVars, pfVars, pd_pc, pd_activeTab,
                 pd_currentResult, pd_stats, pd_loading, pd_logouts, pd_childReq,
                 pd_results>>

(***************************************************************************)
(* Login and Register (Register is rendered by Login while showRegister).  *)
(***************************************************************************)

\* The users the backend can return, and a response without a user.
Users == {"u1", "u2"}
NoUser == "undefined"

\* The error field of a response: a message, or absent.
ServerMessage == "server_error"
Missing == "undefined"
ErrorFields == {ServerMessage, Missing}

\* {error && ...}, {message && ...}: what the form shows.
Visible(text) == text \notin {"", Missing}

\* x || fallback
OrElse(x, fallback) == IF x \in {"", Missing} THEN fallback ELSE x

\* JSON.stringify(user), as localStorage holds it.
Stringify(user) == <<"json", user>>
NoItem == <<"none", "">>

\* What loginUser can do: resolve with success and a user, resolve
\* unsuccessful with or without an error text, or reject.
LoginResponses ==
  {[outcome |-> "ok", user |-> u, error |-> Missing] : u \in Users} \cup
  {[outcome |-> "fail", user |-> NoUser, error |-> e] : e \in ErrorFields} \cup
  {[outcome |-> "throw", user |-> NoUser, error |-> e] : e \in ErrorFields}

\* What axios.post(.../auth/register) can do; a successful answer may lack
\* the user.
RegisterResponses ==
  LoginResponses \cup {[outcome |-> "ok", user |-> NoUser, error |-> Missing]}

\* Register's useState initial values (a fresh instance at every showing).
RGFresh ==
  /\ rg_loading' = FALSE
  /\ rg_message' = ""
  /\ rg_formData' = "blank"

\* Login's useState initial values; nothing is in flight.
LGState ==
  /\ lg_loading = FALSE
  /\ lg_error = ""
  /\ lg_showRegister = FALSE
  /\ lg_req = "none"
  /\ lg_logins = <<>>
  /\ lg_issued = 0
  /\ rg_inst = 0
  /\ rg_loading = FALSE
  /\ rg_message = ""
  /\ rg_formData = "blank"
  /\ rg_reqs = <<>>

LGInit == LGState /\ lg_storage = NoItem

\* The login form is what Login renders.
LoginFormRendered == view = "Login" /\ ~lg_showRegister

\* handleSubmit up to its await; the submit button is disabled while loading.
LoginSubmit ==
  /\ LoginFormRendered /\ ~lg_loading
  /\ lg_issued < MaxAuth
  /\ lg_loading' = TRUE
  /\ lg_error' = ""
  /\ lg_req' = "sent"
  /\ lg_issued' = lg_issued + 1
  /\ ev' = Ev("loginSubmit", 0, "", "")
  /\ UNCHANGED <<view, envVars, lbVars, crVars, ddVars, cmVars, chVars, pfVars, pdVars,
                 lg_showRegister, lg_storage, lg_logins, rgVars>>

\* A continuation that signs the user in whatever the answer was.
LoginSettle_AlwaysStore(r) ==
  /\ lg_storage' = Stringify(r.user)
  /\ lg_logins' = Append(lg_logins, r.user)
  /\ lg_error' = IF r.outcome = "ok" THEN lg_error
                 ELSE IF r.outcome = "fail" THEN r.error ELSE "login_failed"

\* handleSubmit after loginUser: the try and catch blocks.
LoginSettle(r) ==
  \/ /\ r.outcome = "ok"
     /\ lg_storage' = Stringify(r.user)
     /\ lg_logins' = Append(lg_logins, r.user)
     /\ UNCHANGED lg_error
  \/ /\ r.outcome = "fail"
     /\ lg_error' = r.error
     /\ UNCHANGED <<lg_storage, lg_logins>>
  \/ /\ r.outcome = "throw"
     /\ lg_error' = "login_failed"
     /\ UNCHANGED <<lg_storage, lg_logins>>

\* The login request settles; finally setLoading(false).
LoginResp ==
  /\ view = "Login" /\ lg_req = "sent"
  /\ \E r \in LoginResponses :
       /\ LoginSettle(r)
       /\ ev' = Ev("loginResp", 0, r.user, r.outcome)
  /\ lg_loading' = FALSE
  /\ lg_req' = "none"
  /\ UNCHANGED <<view, envVars, lbVars, crVars, ddVars, cmVars, chVars, pfVars, pdVars,
                 lg_showRegister, lg_issued, rgVars>>

\* onClick={() => setShowRegister(true)}: a new Register instance mounts.
LoginShowRegister ==
  /\ LoginFormRendered
  /\ rg_inst < MaxShows
  /\ lg_showRegister' = TRUE
  /\ rg_inst' = rg_inst + 1
  /\ RGFresh
  /\ ev' = Ev("loginShowRegister", 0, "", "")
  /\ UNCHANGED <<view, envVars, lbVars, crVars, ddVars, cmVars, chVars, pfVars, pdVars,
                 lg_loading, lg_error, lg_req, lg_storage, lg_logins, lg_issued,
                 rg_reqs>>

\* handleBackToLogin (Register's onBack).
LoginBackToLogin ==
  /\ view = "Login" /\ lg_showRegister
  /\ lg_showRegister' = FALSE
  /\ ev' = Ev("loginBack", 0, "", "")
  /\ UNCHANGED <<view, envVars, lbVars, crVars, ddVars, cmVars, chVars, pfVars, pdVars,
                 lg_loading, lg_error, lg_req, lg_storage, lg_logins, lg_issued,
                 rgVars>>

\* Register.handleChange
RegisterChange ==
  /\ view = "Login" /\ lg_showRegister
  /\ rg_formData' = "filled"
  /\ ev' = Ev("registerChange", 0, "", "")
  /\ UNCHANGED <<view, envVars, lbVars, crVars, ddVars, cmVars, chVars, pfVars, pdVars,
                 lg_loading, lg_error, lg_showRegister, lg_req, lg_storage,
                 lg_logins, lg_issued, rg_inst, rg_loading, rg_message, rg_reqs>>

\* Register.handleSubmit up to its await; the button is disabled while
\* loading.  The request remembers the instance that sent it.
RegisterSubmit ==
  /\ view = "Login" /\ lg_showRegister /\ ~rg_loading
  /\ lg_issued < MaxAuth
  /\ rg_loading' = TRUE
  /\ rg_message' = ""
  /\ rg_reqs' = Append(rg_reqs, [inst |-> rg_inst, state |-> "sent"])
  /\ lg_issued' = lg_issued + 1
  /\ ev' = Ev("registerSubmit", Len(rg_reqs) + 1, "", "")
  /\ UNCHANGED <<view, envVars, lbVars, crVars, ddVars, cmVars, chVars, pfVars, pdVars,
                 lg_loading, lg_error, lg_showRegister, lg_req, lg_storage,
                 lg_logins, rg_inst, rg_formData>>

\* handleRegistrationSuccess(userData), or nothing when it is not called.
RegistrationSuccess(called, user) ==
  IF called
  THEN /\ lg_storage' = Stringify(user)
       /\ lg_logins' = Append(lg_logins, user)
       /\ lg_showRegister' = FALSE
  ELSE UNCHANGED <<lg_storage, lg_logins, lg_showRegister>>

\* Register.handleSubmit after its await.  The state setters act on the
\* instance that sent the request, if it is still the one shown.
RegisterResp ==
  /\ view = "Login"
  /\ \E n \in DOMAIN rg_reqs, r \in RegisterResponses :
       LET live == lg_showRegister /\ rg_reqs[n].inst = rg_inst
           called == r.outcome = "ok" /\ r.user # NoUser
       IN /\ rg_reqs[n].state = "sent"
          /\ rg_reqs' = [rg_reqs EXCEPT ![n].state = "settled"]
          /\ RegistrationSuccess(called, r.user)
          /\ rg_message' =
               IF ~live THEN rg_message
               ELSE IF r.outcome = "ok" THEN "successful"
               ELSE OrElse(r.error, "registration_failed")
          /\ rg_formData' =
               IF live /\ r.outcome = "ok" /\ ~called THEN "blank" ELSE rg_formData
          /\ rg_loading' = IF live THEN FALSE ELSE rg_loading
          /\ ev' = Ev("registerResp", n, r.user, r.outcome)
  /\ UNCHANGED <<view, envVars, lbVars, crVars, ddVars, cmVars, chVars, pfVars, pdVars,
                 lg_loading, lg_error, lg_req, lg_issued, rg_inst>>

(***************************************************************************)
(* CaseReview: submitting the review.                                      *)
(***************************************************************************)
\* The list fields of the review form, and what can be typed into the
\* form's controls.
ListFields == {"recommendations", "medications", "lifestyle_changes"}
ItemTexts == {<<>>, <<" ">>, <<"a">>, <<" ", "a">>}
Diagnoses == {"", "d"}
Severities == {"mild", "moderate", "severe", "critical"}

\* useState({...}) of reviewForm
InitialReviewForm ==
  [diagnosis |-> "", severity |-> "mild", recommendations |-> << <<>> >>,
   follow_up_required |-> FALSE, medications |-> << <<>> >>,
   lifestyle_changes |-> << <<>> >>]

\* A filter that keeps every entry that is not the empty string.
CleanList_NoTrim(list) == SelectSeq(list, LAMBDA r : r # <<>>)

\* list.filter(r => r.trim())
CleanList(list) == SelectSeq(list, LAMBDA r : Trim(r) # <<>>)

\* cleanedForm
CleanedForm(form) ==
  [form EXCEPT !.recommendations = CleanList(@),
               !.medications = CleanList(@),
               !.lifestyle_changes = CleanList(@)]

\* One more edit of the form fits the bound.
CanEdit == view = "CaseReview" /\ cr_edits < MaxEdits

\* addItem(field)
CRAddItem ==
  /\ CanEdit
  /\ \E field \in ListFields :
       /\ Len(cr_form[field]) < MaxItems
       /\ cr_form' = [cr_form EXCEPT ![field] = Append(@, <<>>)]
       /\ ev' = Ev("crAddItem", 0, field, "")
  /\ cr_edits' = cr_edits + 1
  /\ UNCHANGED <<view, envVars, lbVars, ddVars, cmVars, chVars, pfVars, pdVars, lgVars,
                 cr_loading, cr_error, cr_req, cr_reviewed, cr_issued, cr_payload>>

\* removeItem(field, index)
CRRemoveItem ==
  /\ CanEdit
  /\ \E field \in ListFields :
       \E index \in DOMAIN cr_form[field] :
         /\ cr_form' = [cr_form EXCEPT ![field] =
              SubSeq(@, 1, index - 1) \o SubSeq(@, index + 1, Len(@))]
         /\ ev' = Ev("crRemoveItem", index, field, "")
  /\ cr_edits' = cr_edits + 1
  /\ UNCHANGED <<view, envVars, lbVars, ddVars, cmVars, chVars, pfVars, pdVars, lgVars,
                 cr_loading, cr_error, cr_req, cr_reviewed, cr_issued, cr_payload>>

\* updateItem(field, index, value)
CRUpdateItem ==
  /\ CanEdit
  /\ \E field \in ListFields :
       \E index \in DOMAIN cr_form[field], value \in ItemTexts :
         /\ cr_form' = [cr_form EXCEPT ![field][index] = value]
         /\ ev' = Ev("crUpdateItem", index, field, "")
  /\ cr_edits' = cr_edits + 1
  /\ UNCHANGED <<view, envVars, lbVars, ddVars, cmVars, chVars, pfVars, pdVars, lgVars,
                 cr_loading, cr_error, cr_req, cr_reviewed, cr_issued, cr_payload>>

\* onChange of the diagnosis, severity and follow-up controls.
CRFieldChange ==
  /\ CanEdit
  /\ \/ \E d \in Diagnoses : cr_form' = [cr_form EXCEPT !.diagnosis = d]
     \/ \E v \in Severities : cr_form' = [cr_form EXCEPT !.severity = v]
     \/ \E b \in BOOLEAN : cr_form' = [cr_form EXCEPT !.follow_up_required = b]
  /\ ev' = Ev("crFieldChange", 0, "", "")
  /\ cr_edits' = cr_edits + 1
  /\ UNCHANGED <<view, envVars, lbVars, ddVars, cmVars, chVars, pfVars, pdVars, lgVars,
                 cr_loading, cr_error, cr_req, cr_reviewed, cr_issued, cr_payload>>

CRInit ==
  /\ cr_form = InitialReviewForm
  /\ cr_payload = <<>>
  /\ cr_edits = 0
  /\ cr_loading = FALSE
  /\ cr_error = ""
  /\ cr_req = "none"
  /\ cr_reviewed = 0
  /\ cr_issued = 0

\* What reviewCase can do: resolve with success, resolve unsuccessful with
\* or without an error text, or reject.
ReviewResponses ==
  {[outcome |-> "ok", error |-> Missing]} \cup
  {[outcome |-> o, error |-> e] : o \in {"fail", "throw"}, e \in ErrorFields}

\* handleSubmit up to its await: reviewCase(caseData._id, cleanedForm)
\* leaves.  The submit button is disabled while loading and the diagnosis
\* is a required control.
CRSubmit ==
  /\ view = "CaseReview" /\ ~cr_loading
  /\ cr_form.diagnosis # ""
  /\ cr_issued < MaxReviews
  /\ cr_payload' = <<CleanedForm(cr_form)>>
  /\ cr_loading' = TRUE
  /\ cr_error' = ""
  /\ cr_req' = "sent"
  /\ cr_issued' = cr_issued + 1
  /\ ev' = Ev("crSubmit", 0, "", "")
  /\ UNCHANGED <<view, envVars, lbVars, ddVars, cmVars, chVars, pfVars, pdVars, lgVars,
                 cr_reviewed, cr_form, cr_edits>>

\* handleSubmit after reviewCase: onReviewed() on success, the response's
\* error otherwise, a fixed text when the call failed; finally.
CRResp ==
  /\ view = "CaseReview" /\ cr_req = "sent"
  /\ \E r \in ReviewResponses :
       /\ cr_reviewed' = IF r.outcome = "ok" THEN cr_reviewed + 1 ELSE cr_reviewed
       /\ cr_error' = CASE r.outcome = "ok" -> cr_error
                        [] r.outcome = "fail" -> r.error
                        [] OTHER -> "review_failed"
       /\ ev' = Ev("crResp", 0, "", r.outcome)
  /\ cr_loading' = FALSE
  /\ cr_req' = "none"
  /\ UNCHANGED <<view, envVars, lbVars, ddVars, cmVars, chVars, pfVars, pdVars, lgVars,
                 cr_issued, cr_form, cr_payload, cr_edits>>

(***************************************************************************)
(* The label of a prediction in the four views that show one.              *)
(***************************************************************************)

\* A record without a prediction field.
Absent == -1

\* The prediction a record carries: a class number, or none.
PredictionValues == {Absent} \cup 0..MaxClass
Records == [disease : Diseases, prediction : PredictionValues]

LabelViews == {"Results", "PredictionForm", "PatientHistory", "CaseReview"}

\* result.prediction === 0 ? 'Negative' : 'Positive'
ResultsLabel(p) == IF p = 0 THEN "Negative" ELSE "Positive"

\* predictionResult.prediction === 0 ? 'Negative' : 'Positive'
FormLabel(p) == IF p = 0 THEN "Negative" ELSE "Positive"

\* record.prediction === 1 ? 'Positive' : 'Negative'
HistoryLabel(p) == IF p = 1 THEN "Positive" ELSE "Negative"

\* caseData.prediction === 1 ? 'Positive' : 'Negative'
CaseLabel(p) == IF p = 1 THEN "Positive" ELSE "Negative"

LabelIn(v, p) ==
  CASE v = "Results" -> ResultsLabel(p)
    [] v = "PredictionForm" -> FormLabel(p)
    [] v = "PatientHistory" -> HistoryLabel(p)
    [] OTHER -> CaseLabel(p)

\* Nothing is rendered yet.
LBShownNothing == lb_shown = [v \in LabelViews |-> ""]

LBInit ==
  /\ lb_record = [disease |-> "anemia", prediction |-> 0]
  /\ LBShownNothing

\* One of the views renders the record.
LBRender(v) ==
  /\ view = "Labels"
  /\ lb_shown[v] = ""
  /\ lb_shown' = [lb_shown EXCEPT ![v] = LabelIn(v, lb_record.prediction)]
  /\ ev' = Ev("lbRender", 0, v, "")
  /\ UNCHANGED <<view, envVars, ddVars, cmVars, chVars, pfVars, pdVars, lgVars,
                 crVars, lb_record>>

(***************************************************************************)
(* Specifications                                                          *)
(***************************************************************************)
EvInit == ev = Ev("init", 0, "", "")

\* The dates the consultation specification draws from.
ConsultDates == {[kind |-> "dateonly", v |-> 1]}

InitConsult ==
  /\ view \in {"DoctorDashboard", "ConsultationManager"}
  /\ EvInit
  /\ clock = DayLen /\ tz = 0
  /\ DDInit /\ CMInit /\ PFInit /\ PDInit /\ LBInit /\ CRInit /\ LGInit /\ ChatInit /\ ch_room = NoRoom

NextConsult ==
  \/ DDMount
  \/ DDConsultationsThrow
  \/ DDConsultationsResp(ConsLists(Statuses, ConsultDates))
  \/ DDCasesThrow
  \/ DDCasesResp
  \/ DDStatusClick
  \/ DDStatusResp
  \/ CMMount
  \/ CMConsultationsThrow
  \/ CMConsultationsResp(ConsLists(Statuses, ConsultDates))
  \/ CMStatusClick
  \/ CMStatusResp

SpecConsult == InitConsult /\ [][NextConsult]_vars

\* The doctor dashboard's load alone, over every date the backend may send,
\* in every time zone and at every instant of the clock.
InitStats ==
  /\ view = "DoctorDashboard"
  /\ EvInit
  /\ clock \in Instants /\ tz \in TZs
  /\ DDInit /\ CMInit /\ PFInit /\ PDInit /\ LBInit /\ CRInit /\ LGInit /\ ChatInit /\ ch_room = NoRoom

NextStats ==
  \/ DDMount
  \/ DDConsultationsThrow
  \/ DDConsultationsResp(ConsLists({"pending"}, DateValues))
  \/ DDCasesThrow
  \/ DDCasesResp

SpecStats == InitStats /\ [][NextStats]_vars

\* The chat over its lifetime: mount, change of room, unmount, with the
\* history fetch and the socket events of every effect run.
InitChat ==
  /\ view = "DoctorPatientChat"
  /\ EvInit
  /\ clock = DayLen /\ tz = 0
  /\ DDInit /\ CMInit /\ PFInit /\ PDInit /\ LBInit /\ CRInit /\ LGInit /\ ChatInit

NextChat ==
  \/ ChatMount
  \/ ChatDepsChange
  \/ ChatUnmount
  \/ ChatConnect
  \/ SrvRemotePost
  \/ ChatNewMessage
  \/ SrvHistory
  \/ ChatHistoryResp

SpecChat == InitChat /\ [][NextChat]_vars

\* The chat of one consultation with a room: typing, submitting, sending.
InitSend ==
  /\ view = "DoctorPatientChat"
  /\ EvInit
  /\ clock = DayLen /\ tz = 0
  /\ DDInit /\ CMInit /\ PFInit /\ PDInit /\ LBInit /\ CRInit /\ LGInit /\ ChatInit /\ ch_room = 1

NextSend ==
  \/ ChatMount
  \/ ChatConnect
  \/ ChatNewMessage
  \/ SrvHistory
  \/ ChatHistoryResp
  \/ ChatInputChange
  \/ ChatInputBlur
  \/ ChatTemplate
  \/ ChatSubmit
  \/ SrvSend
  \/ ChatSendResp

SpecSend == InitSend /\ [][NextSend]_vars

\* The chat of one consultation with a room: file uploads.
NextUpload ==
  \/ ChatMount
  \/ ChatConnect
  \/ ChatNewMessage
  \/ SrvHistory
  \/ ChatHistoryResp
  \/ ChatFileSelect
  \/ SrvUpload
  \/ ChatUploadResp
  \/ SrvFileMessage

SpecUpload == InitSend /\ [][NextUpload]_vars

\* The chat of one consultation with a room: presence events.
NextPresence ==
  \/ ChatMount
  \/ ChatConnect
  \/ SrvHistory
  \/ ChatHistoryResp
  \/ ChatUserTyping
  \/ ChatUserJoined

SpecPresence == InitSend /\ [][NextPresence]_vars

\* Login with its Register; the storage holds nothing or an earlier user.
InitAuth ==
  /\ view = "Login"
  /\ EvInit
  /\ clock = DayLen /\ tz = 0
  /\ DDInit /\ CMInit /\ PFInit /\ PDInit /\ LBInit /\ CRInit /\ ChatInit /\ ch_room = NoRoom
  /\ LGState
  /\ lg_storage \in {NoItem} \cup {Stringify(u) : u \in Users}

NextAuth ==
  \/ LoginSubmit
  \/ LoginResp
  \/ LoginShowRegister
  \/ LoginBackToLogin
  \/ RegisterChange
  \/ RegisterSubmit
  \/ RegisterResp

SpecAuth == InitAuth /\ [][NextAuth]_vars

\* Any one component, with the handlers that raise and lower its loading
\* flags.
Views ==
  {"DoctorDashboard", "ConsultationManager", "PatientDashboard", "PredictionForm",
   "DoctorPatientChat", "Login", "CaseReview"}

InitLoading ==
  /\ view \in Views
  /\ EvInit
  /\ clock = DayLen /\ tz = 0
  /\ DDInit /\ CMInit /\ PFInit /\ PDInit /\ LBInit /\ CRInit /\ LGInit /\ ChatInit

NextLoading ==
  \/ DDMount
  \/ DDConsultationsThrow
  \/ DDConsultationsResp(ConsLists({"pending"}, ConsultDates))
  \/ DDCasesThrow
  \/ DDCasesResp
  \/ CMMount
  \/ CMConsultationsThrow
  \/ CMConsultationsResp(ConsLists({"pending"}, ConsultDates))
  \/ PDMount
  \/ PDSessionResp
  \/ PDStatsResp
  \/ PDRefreshStats
  \/ PFMount
  \/ PFInfoResp
  \/ PFRetry
  \/ PFSubmit
  \/ SrvPredict
  \/ PFPredictResp
  \/ ChatMount
  \/ ChatDepsChange
  \/ ChatUnmount
  \/ SrvHistory
  \/ ChatHistoryResp
  \/ LoginSubmit
  \/ LoginResp
  \/ LoginShowRegister
  \/ LoginBackToLogin
  \/ RegisterSubmit
  \/ RegisterResp
  \/ CRFieldChange
  \/ CRSubmit
  \/ CRResp

SpecLoading == InitLoading /\ [][NextLoading]_vars

\* CaseReview: editing the form and submitting it.
InitReview ==
  /\ view = "CaseReview"
  /\ EvInit
  /\ clock = DayLen /\ tz = 0
  /\ DDInit /\ CMInit /\ PFInit /\ PDInit /\ LBInit /\ CRInit /\ LGInit /\ ChatInit /\ ch_room = NoRoom

NextReview ==
  \/ CRAddItem
  \/ CRRemoveItem
  \/ CRUpdateItem
  \/ CRFieldChange
  \/ CRSubmit
  \/ CRResp

SpecReview == InitReview /\ [][NextReview]_vars

\* One record, shown by the four views in any order.
InitLabels ==
  /\ view = "Labels"
  /\ EvInit
  /\ clock = DayLen /\ tz = 0
  /\ DDInit /\ CMInit /\ PFInit /\ PDInit /\ CRInit /\ LGInit /\ ChatInit /\ ch_room = NoRoom
  /\ lb_record \in Records
  /\ LBShownNothing

NextLabels ==
  \/ LBRender("Results")
  \/ LBRender("PredictionForm")
  \/ LBRender("PatientHistory")
  \/ LBRender("CaseReview")

SpecLabels == InitLabels /\ [][NextLabels]_vars

\* The prediction form.
InitForm ==
  /\ view = "PredictionForm"
  /\ EvInit
  /\ clock = DayLen /\ tz = 0
  /\ DDInit /\ CMInit /\ PFInit /\ PDInit /\ LBInit /\ CRInit /\ LGInit /\ ChatInit /\ ch_room = NoRoom

NextForm ==
  \/ PFMount
  \/ PFInfoResp
  \/ PFRetry
  \/ PFDiseaseSelect
  \/ PFResetToAnemia
  \/ PFInputChange
  \/ PFSubmit
  \/ SrvPredict
  \/ PFPredictResp

SpecForm == InitForm /\ [][NextForm]_vars

\* The patient dashboard.
InitPatient ==
  /\ view = "PatientDashboard"
  /\ EvInit
  /\ clock = DayLen /\ tz = 0
  /\ DDInit /\ CMInit /\ PFInit /\ PDInit /\ LBInit /\ CRInit /\ LGInit /\ ChatInit /\ ch_room = NoRoom

NextPatient ==
  \/ PDMount
  \/ PDSessionResp
  \/ PDStatsResp
  \/ PDRefreshStats
  \/ PDTabChange
  \/ PDChildSubmit
  \/ PDChildNoResult
  \/ PDHandlePredictionResult
  \/ PDTimerFire

SpecPatient == InitPatient /\ [][NextPatient]_vars

\* Either dashboard, with its tab navigation.
InitTabs ==
  /\ view \in {"DoctorDashboard", "PatientDashboard"}
  /\ EvInit
  /\ clock = DayLen /\ tz = 0
  /\ DDInit /\ CMInit /\ PFInit /\ PDInit /\ LBInit /\ CRInit /\ LGInit /\ ChatInit /\ ch_room = NoRoom

NextTabs ==
  \/ DDMount
  \/ DDConsultationsThrow
  \/ DDConsultationsResp(ConsLists(Statuses, ConsultDates))
  \/ DDCasesThrow
  \/ DDCasesResp
  \/ DDSetActiveTab
  \/ DDStatusClick
  \/ DDStatusResp
  \/ NextPatient

SpecTabs == InitTabs /\ [][NextTabs]_vars

(***************************************************************************)
(* Claims                                                                  *)
(***************************************************************************)

\* What a settled status update (request r, settled as outcome) may do to a
\* consultation list: on success the records with r's id take r's status and
\* nothing else changes; otherwise the list is as it was.
StatusUpdateEffect(old, new, r, outcome) ==
  IF outcome = "ok"
  THEN /\ Len(new) = Len(old)
       /\ \A i \in DOMAIN old :
            IF old[i].id = r.id
            THEN /\ new[i].status = r.status
                 /\ new[i].id = old[i].id
                 /\ new[i].requested_date = old[i].requested_date
            ELSE new[i] = old[i]
  ELSE new = old

\* C1: when a status update for id i and status s settles, in the doctor
\* dashboard or in the consultation manager, then on success the local record
\* i has status s and every other record is unchanged, and on a thrown or
\* unsuccessful call the local list is unchanged.
C1_StatusUpdatePatchesOnlyOnSuccess ==
  [][/\ ev'.op = "ddStatusResp" =>
          \E r \in BagToSet(dd_req) :
            /\ dd_req' = dd_req (-) SetToBag({r})
            /\ StatusUpdateEffect(dd_consultations, dd_consultations', r, ev'.outcome)
     /\ ev'.op = "cmStatusResp" =>
          \E r \in BagToSet(cm_req) :
            /\ cm_req' = cm_req (-) SetToBag({r})
            /\ StatusUpdateEffect(cm_consultations, cm_consultations', r, ev'.outcome)
    ]_vars

\* C1 witness: a successful update has just been applied to a list of two
\* records that now differ in status, while another update is still out.
C1_Witness ==
  /\ ev.op = "ddStatusResp" /\ ev.outcome = "ok"
  /\ Len(dd_consultations) = 2
  /\ dd_consultations[1].status = "completed"
  /\ dd_consultations[2].status = "pending"
  /\ dd_req # EmptyBag

\* The calendar day a requested_date names: the local day of an instant, the
\* day a date-only string spells.
CalendarDay(d) ==
  CASE d.kind = "instant" -> (d.v + tz) \div DayLen
    [] d.kind = "dateonly" -> d.v
    [] OTHER -> NaN

\* C9: after the load has computed the stats from the fetched list,
\* todayAppointments is the number of entries whose requested_date falls on
\* the current calendar day.
C9_TodayAppointmentsCountsToday ==
  (ev.op = "ddCasesResp" /\ ev.outcome # "throw") =>
    dd_stats.todayAppointments =
      Cardinality({i \in DOMAIN dd_consultations :
        CalendarDay(dd_consultations[i].requested_date) = (clock + tz) \div DayLen})

\* C10: once the dashboard has finished loading, the stats are those of the
\* current local lists.
C10_StatsMatchLists ==
  (view = "DoctorDashboard" /\ dd_pc = "done") =>
    /\ dd_stats.totalPatients = Len(dd_consultations)
    /\ dd_stats.pendingReviews = Len(dd_pendingCases)
    /\ dd_stats.completedConsultations =
         Cardinality({i \in DOMAIN dd_consultations :
           dd_consultations[i].status = "completed"})

\* C10, second reading: the same, over the runs in which both fetches
\* resolved and every update asked for has settled.
C10_StatsMatchListsAfterOverlap ==
  (view = "DoctorDashboard" /\ dd_pc = "done" /\ ev.op = "ddStatusResp"
     /\ dd_req = EmptyBag /\ dd_stats.totalPatients = Len(dd_consultations)
     /\ Len(dd_consultations) > 0) =>
    dd_stats.completedConsultations =
      Cardinality({i \in DOMAIN dd_consultations :
        dd_consultations[i].status = "completed"})



\* The operations that belong to one effect run: ev.id is the run.
RunOps == {"chHistoryResp", "chNewMessage", "chUserTyping", "chUserJoined", "chSendResp"}

\* C2: once the cleanup of an effect run has run (leave emitted, socket
\* disconnected), nothing that was pending for that run updates the messages,
\* the typing users, the online users or the loading flag.
C2_NoUpdateAfterLeave ==
  [][ (ev'.op \in RunOps /\ ev'.id \in DOMAIN ch_socks
         /\ ch_socks[ev'.id].state = "closed")
      => UNCHANGED <<ch_messages, ch_typingUsers, ch_onlineUsers, ch_loading>> ]_vars

\* C3: every socket is disconnected exactly once, at the teardown of the run
\* that opened it; at most one is live, and none after unmount.
TornDown(n) == n < CurRun \/ ch_pc = "unmounted"

C3_SocketDisconnectedExactlyOnce ==
  /\ \A n \in DOMAIN ch_socks :
       /\ ch_socks[n].disconnects = IF TornDown(n) THEN 1 ELSE 0
       /\ (ch_socks[n].state = "closed") <=> TornDown(n)
  /\ Cardinality({n \in DOMAIN ch_socks : ch_socks[n].state # "closed"}) <= 1
  /\ ch_pc = "unmounted" => \A n \in DOMAIN ch_socks : ch_socks[n].state = "closed"

C3_Witness ==
  /\ ch_pc = "unmounted"
  /\ Len(ch_socks) = 2
  /\ ch_socks[1].room # ch_socks[2].room
  /\ ch_socks[1].joins = 1 /\ ch_socks[2].joins = 1
  /\ ch_socks[1].disconnects = 1 /\ ch_socks[2].disconnects = 1

IsPrefix(a, b) == Len(a) <= Len(b) /\ SubSeq(b, 1, Len(a)) = a

\* C4: the message list is append-only: every step leaves the messages it
\* held in place, at the front of the list, in the same order.
C4_MessageListAppendOnly ==
  [][IsPrefix(ch_messages, ch_messages')]_vars

\* C5: a submit with a blank or whitespace-only input, or without a room,
\* issues no send, emits no typing event and leaves the messages, the input
\* and the typing flag as they were.
C5_BlankSubmitIsNoOp ==
  [][ (ev'.op = "chSubmit" /\ (Trim(ch_newMessage) = <<>> \/ ch_room = NoRoom))
      => /\ ch_sends' = ch_sends /\ ch_sent' = ch_sent
         /\ ev'.arg = "" /\ ev'.outcome = ""
         /\ UNCHANGED <<ch_messages, ch_newMessage, ch_isTyping>> ]_vars

C5_Witness ==
  /\ ev.op = "chSubmit" /\ ev.outcome = ""
  /\ ch_newMessage # <<>> /\ Trim(ch_newMessage) = <<>>
  /\ ch_room # NoRoom /\ ch_socket # 0

\* C6: the message list changes only when a history load resolves
\* successfully or a new_message event is delivered; submitting and the
\* send's response leave it alone.
C6_SendLeavesMessagesAlone ==
  [][ /\ ch_messages' # ch_messages
         => \/ ev'.op = "chHistoryResp" /\ ev'.outcome = "ok"
            \/ ev'.op = "chNewMessage"
      /\ ev'.op \in {"chSubmit", "srvSend", "chSendResp"}
         => ch_messages' = ch_messages ]_vars

\* A send has succeeded, the server holds the message, the list does not.
C6_Witness ==
  /\ ev.op = "chSendResp" /\ ev.outcome = "ok"
  /\ ch_hist[CurRun].state = "done"
  /\ Len(srv_log[ch_room]) > Len(ch_messages)


\* The values parseFloat finds no number in.
NotNumeric(x) == x.kind \in {"blank", "undefined", "letters", "file"}

\* C7: the features a submit sends hold one entry per field of the selected
\* disease's schema, in schema order; every entry is a finite number; a
\* blank, missing or non-numeric value gives 0 and a numeral its value.
C7_FeaturesFinitePerField ==
  [][ ev'.op = "pfSubmit"
      => LET fields == pf_diseaseInfo[pf_selectedDisease]
             features == pf_req'.features
         IN /\ pf_req'.disease = pf_selectedDisease
            /\ Len(features) = Len(fields)
            /\ \A i \in 1..Len(fields) :
                 LET value == Lookup(pf_formData, fields[i].name)
                 IN /\ features[i].fin
                    /\ NotNumeric(value) => features[i] = Fin(0)
                    /\ value.kind = "numeral" => features[i] = Fin(value.v) ]_vars

\* C8: no value entered under one selection is in the form once the
\* selected disease has changed: every value the form holds was entered
\* under the disease that is selected now.
C8_NoValueAcrossSelections ==
  \A n \in DOMAIN pf_formData : pf_formData[n].under = pf_selectedDisease

\* Back on anemia, where values had been entered before the other disease
\* was selected, with an empty form.
C8_Witness ==
  /\ ev.op = "pfDiseaseSelect" /\ ev.id = 1
  /\ pf_selectedDisease = "anemia"
  /\ "anemia" \in pf_entered
  /\ DOMAIN pf_formData = {}


\* C11: on mount both fetches are issued before either is awaited: once the
\* consultations request has settled, however it settled, the pending-cases
\* request has been issued.
C11_CasesFetchIssuedWhateverConsultationsOutcome ==
  [][ev'.op = "ddConsultationsResp" => dd_pc' = "awaitCases"]_vars


\* C12: a stats request that throws or returns unsuccessful leaves the
\* stats of the patient dashboard exactly as they were.
C12_StatsFailureLeavesStats ==
  [][ (ev'.op = "pdStatsResp" /\ ev'.outcome \in {"fail", "throw"})
      => pd_stats' = pd_stats ]_vars


\* C13: a tab switch in either dashboard issues no request and leaves the
\* fetched lists and the stats alone: the doctor dashboard changes only
\* activeTab; the patient dashboard changes only activeTab and, for a tab
\* other than predict, sets currentResult to null.
C13_TabSwitchDoesNotRefetch ==
  [][ /\ ev'.op = "ddSetActiveTab"
         => /\ dd_activeTab' = ev'.arg
            /\ UNCHANGED <<dd_consultations, dd_pendingCases, dd_loading, dd_stats,
                           dd_pc, dd_consResp, dd_req, dd_issued>>
      /\ ev'.op = "pdTabChange"
         => /\ pd_activeTab' = ev'.arg
            /\ pd_currentResult' = IF ev'.arg # "predict" THEN NoResult
                                                          ELSE pd_currentResult
            /\ UNCHANGED <<pd_pc, pd_stats, pd_loading, pd_statsLoading,
                           pd_statsInFlight, pd_statsIssued, pd_timers,
                           pd_logouts>> ]_vars

\* The patient has left the predict tab after a result: the result is gone,
\* the count it added is still there.
C13_Witness ==
  /\ ev.op = "pdTabChange" /\ ev.arg = "history"
  /\ pd_activeTab = "history"
  /\ pd_results > 0 /\ pd_currentResult = NoResult
  /\ pd_stats.lastCheckup = "today"


\* C14: when a prediction call settles with success and a prediction, the
\* prediction is stored, onResult is called once with it and no error is
\* set; when it throws or comes back unsuccessful or without a prediction,
\* an error is set, no result is stored and onResult is not called.
C14_PredictionOutcomeHandling ==
  [][ ev'.op = "pfPredictResp"
      => IF ev'.outcome = "ok"
         THEN /\ pf_predictionResult' = [disease |-> pf_req.disease,
                                          prediction |-> pf_req.prediction]
              /\ ev'.id = 1 /\ pf_onResult' = pf_predictionResult'
              /\ pf_error' = ""
         ELSE /\ pf_error' # ""
              /\ pf_predictionResult' = NoResult
              /\ ev'.id = 0 /\ pf_onResult' = pf_onResult ]_vars

\* A second submission has failed after a first one had succeeded: the
\* error is shown, nothing is stored, the parent still holds the first result.
C14_Witness ==
  /\ ev.op = "pfPredictResp" /\ ev.outcome = "throw"
  /\ pf_error = "predict_failed"
  /\ pf_predictionResult = NoResult /\ pf_onResult # NoResult


\* The follow-up messages sent for upload n.
MessagesOf(n) == {k \in DOMAIN ch_fileMsgs : ch_fileMsgs[k].upload = n}

\* C15: a follow-up message is sent only for an upload that has returned
\* success, carries the URL that upload returned, and is the only one for
\* it; an upload that threw or returned unsuccessful has none.
C15_FileMessageFollowsUpload ==
  /\ \A k \in DOMAIN ch_fileMsgs :
       LET u == ch_uploads[ch_fileMsgs[k].upload]
       IN u.state = "messaged" /\ u.url # NoUrl /\ ch_fileMsgs[k].url = u.url
  /\ \A n \in DOMAIN ch_uploads :
       /\ Cardinality(MessagesOf(n)) <= 1
       /\ ch_uploads[n].state # "messaged" => MessagesOf(n) = {}
       /\ ch_uploads[n].state = "messaged" => MessagesOf(n) # {}

\* Two uploads, the second answered first: the first one failed and has no
\* message, the second one's message carries the first URL the server gave.
C15_Witness ==
  /\ Len(ch_uploads) = 2
  /\ ch_uploads[1].state = "dropped"
  /\ ch_uploads[2].state = "messaged" /\ ch_uploads[2].url = 1
  /\ Len(ch_fileMsgs) = 1 /\ ch_fileMsgs[1].upload = 2 /\ ch_fileMsgs[1].url = 1
  /\ ch_fileMsgs[1].state = "stored"


\* C16: the storage is written and onLogin called only by a login or
\* registration that returned success, with the user it returned; a login
\* that throws or returns unsuccessful leaves both alone and leaves a
\* visible error.
C16_SignInOnlyOnSuccess ==
  [][/\ (lg_storage' # lg_storage \/ lg_logins' # lg_logins) =>
        /\ ev'.op \in {"loginResp", "registerResp"}
        /\ ev'.outcome = "ok" /\ ev'.arg \in Users
        /\ lg_storage' = Stringify(ev'.arg)
        /\ lg_logins' = Append(lg_logins, ev'.arg)
     /\ (ev'.op = "loginResp" /\ ev'.outcome \in {"fail", "throw"}) =>
        /\ lg_storage' = lg_storage
        /\ lg_logins' = lg_logins
        /\ Visible(lg_error')]_vars


\* C17: when the session check of the patient dashboard's initialization
\* returns unsuccessful or unauthenticated, or throws with status 401 or
\* 404, onLogout is called and no stats request leaves; when it returns
\* success and authenticated, onLogout is not called and the stats request
\* leaves.
C17_SessionCheckDecidesLogout ==
  [][ev'.op = "pdSessionResp" =>
       /\ (ev'.outcome \in {"fail", "unauth"}
             \/ (ev'.outcome = "throw" /\ ev'.id \in {401, 404})) =>
            /\ pd_logouts' = pd_logouts + 1
            /\ pd_statsIssued' = pd_statsIssued /\ pd_statsInFlight' = pd_statsInFlight
       /\ ev'.outcome = "ok" =>
            /\ pd_logouts' = pd_logouts
            /\ pd_statsIssued' = pd_statsIssued + 1
            /\ pd_statsInFlight' = pd_statsInFlight + 1 /\ pd_statsLoading']_vars

\* The session check threw with status 404: logged out, no stats request.
C17_Witness ==
  /\ ev.op = "pdSessionResp" /\ ev.outcome = "throw" /\ ev.id = 404
  /\ pd_logouts = 1 /\ pd_statsIssued = 0 /\ pd_stats = InitialStats


\* C18: no message id appears more than once in the chat message list,
\* however the history response and the new_message events are ordered.
C18_NoDuplicateMessage ==
  \A i, j \in DOMAIN ch_messages : ch_messages[i] = ch_messages[j] => i = j


\* The status changes the buttons offer.
OfferedChanges ==
  {<<"pending", "confirmed">>, <<"pending", "cancelled">>, <<"confirmed", "completed">>}

\* Every record of the list after keeps its status or changes it along an
\* offered change.
ChangesOffered(before, after) ==
  /\ DOMAIN after = DOMAIN before
  /\ \A i \in DOMAIN before :
       \/ after[i].status = before[i].status
       \/ <<before[i].status, after[i].status>> \in OfferedChanges

\* C19: in the doctor dashboard and in ConsultationManager a settled status
\* update changes the held status of a consultation only from pending to
\* confirmed, from pending to cancelled or from confirmed to completed,
\* however clicks and responses interleave; cancelled and completed are
\* never left.
C19_StatusChangesOnlyAlongOffered ==
  [][/\ ev'.op = "ddStatusResp" => ChangesOffered(dd_consultations, dd_consultations')
     /\ ev'.op = "cmStatusResp" => ChangesOffered(cm_consultations, cm_consultations')]_vars


\* The status the list showed for the consultation with that id.
ShownStatus(list, id) == {list[k].status : k \in {j \in DOMAIN list : list[j].id = id}}

\* Request r was made along an offered change from the status its click saw.
RequestedAlongOffered(r) ==
  \A s \in ShownStatus(r.cons, r.id) : <<s, r.status>> \in OfferedChanges

\* C19 (amended): in ConsultationManager a settled update changes a held
\* status only along an offered change; in the doctor dashboard every
\* update in flight was requested along an offered change from the status
\* shown at its click, and a settled update changes only the consultation
\* it names, to the status it asked for.
C19_StatusChangesAsRequested ==
  [][/\ ev'.op = "cmStatusResp" => ChangesOffered(cm_consultations, cm_consultations')
     /\ \A r \in BagToSet(dd_req') : RequestedAlongOffered(r)
     /\ ev'.op = "ddStatusResp" =>
          \E r \in BagToSet(dd_req) :
            /\ dd_req' = dd_req (-) SetToBag({r})
            /\ DOMAIN dd_consultations' = DOMAIN dd_consultations
            /\ \A i \in DOMAIN dd_consultations :
                 \/ dd_consultations'[i] = dd_consultations[i]
                 \/ /\ dd_consultations[i].id = r.id
                    /\ dd_consultations'[i].status = r.status]_vars

\* Confirm and Decline of one pending consultation overlap in the doctor
\* dashboard: the first has been applied, the second is still in flight.
C19_Witness ==
  /\ ev.op = "ddStatusResp" /\ ev.outcome = "ok"
  /\ Len(dd_consultations) >= 1 /\ dd_consultations[1].status = "confirmed"
  /\ \E r \in BagToSet(dd_req) :
       r.id = dd_consultations[1].id /\ r.status = "cancelled"


\* C20: once the request of an asynchronous action has settled, with any
\* outcome, the loading flag that action raised is false in the component
\* that raised it (while that component is still shown).
C20_LoadingLoweredOnSettle ==
  [][/\ (ev'.op = "ddConsultationsResp" /\ ev'.outcome = "throw") => ~dd_loading'
     /\ ev'.op = "ddCasesResp" => ~dd_loading'
     /\ ev'.op = "cmConsultationsResp" => ~cm_loading'
     /\ (ev'.op = "pdSessionResp" /\ ev'.outcome # "ok") => ~pd_loading'
     /\ ev'.op = "pdStatsResp" =>
          ~pd_statsLoading' /\ (pd_pc = "awaitStats" => ~pd_loading')
     /\ ev'.op = "pfInfoResp" => ~pf_isLoadingInfo'
     /\ ev'.op = "pfPredictResp" => ~pf_loading'
     /\ (ev'.op = "chHistoryResp" /\ Mounted') => ~ch_loading'
     /\ ev'.op = "loginResp" => ~lg_loading'
     /\ (ev'.op = "registerResp" /\ lg_showRegister'
           /\ rg_reqs[ev'.id].inst = rg_inst') => ~rg_loading'
     /\ ev'.op = "crResp" => ~cr_loading']_vars

\* The history fetch of the shown chat has thrown and loading is lowered.
C20_Witness ==
  /\ ev.op = "chHistoryResp" /\ ev.outcome = "throw"
  /\ Mounted /\ ~ch_loading /\ ch_messages = <<>>


\* C21: when a send has returned success, the continuation leaves the input
\* empty and the typing flag false and emits the typing event (with typing
\* false) for the room; when it threw or returned unsuccessful, the input
\* and the typing flag are as they were.
C21_SendSuccessResetsInput ==
  [][ev'.op = "chSendResp" =>
       IF ev'.outcome = "ok"
       THEN ch_newMessage' = <<>> /\ ~ch_isTyping' /\ ev'.arg = "typing"
       ELSE /\ ch_newMessage' = ch_newMessage /\ ch_isTyping' = ch_isTyping
            /\ ev'.arg = ""]_vars

\* A send succeeded while the user had typed on and a second send was out:
\* the input is empty, the flag lowered, the event emitted.
C21_Witness ==
  /\ ev.op = "chSendResp" /\ ev.outcome = "ok" /\ ev.arg = "typing"
  /\ ch_newMessage = <<>> /\ ~ch_isTyping
  /\ ch_sends # EmptyBag


\* The user ids a typing or online collection holds.
Ids(list) == {list[i] : i \in DOMAIN list}

\* The collection holds no id twice.
NoRepeat(list) == \A i, j \in DOMAIN list : list[i] = list[j] => i = j

\* C22: the typing-user collection never holds an id twice and never the
\* local user's; a user_typing event about remote user u leaves u in it
\* exactly when its typing field was true, and leaves every other user's
\* membership as it was (so u is in it exactly when the most recent event
\* about u had typing true).
C22_TypingUsersFollowLastEvent ==
  [][/\ NoRepeat(ch_typingUsers')
     /\ ch_user' \notin Ids(ch_typingUsers')
     /\ ev'.op = "chUserTyping" =>
          /\ ev'.id # ch_user =>
               (ev'.id \in Ids(ch_typingUsers') <=> ev'.outcome = "true")
          /\ Ids(ch_typingUsers') \ {ev'.id} = Ids(ch_typingUsers) \ {ev'.id}
     /\ ev'.op # "chUserTyping" => Ids(ch_typingUsers') = Ids(ch_typingUsers)]_vars

\* User 2 typed, user 3 typed, user 2 typed again: one entry each, 2 last.
C22_Witness ==
  /\ ev.op = "chUserTyping" /\ ev.id = 2 /\ ev.outcome = "true"
  /\ ch_typingUsers = <<3, 2>>

\* C23: the online-user collection holds each user id at most once.
C23_OnlineUsersIsSet == NoRepeat(ch_onlineUsers)


\* The entry has a character that is not white space.
NotBlank(text) == \E i \in DOMAIN text : text[i] # " "

\* out holds exactly the non-blank entries of list, in their order.
NonBlankEntriesOf(out, list) ==
  LET kept == {i \in DOMAIN list : NotBlank(list[i])}
  IN /\ Len(out) = Cardinality(kept)
     /\ \E f \in [DOMAIN out -> kept] :
          /\ \A j, k \in DOMAIN out : j < k => f[j] < f[k]
          /\ \A k \in DOMAIN out : out[k] = list[f[k]]

C26_ResultBelongsToSelectedDisease ==
  pf_predictionResult # NoResult => pf_predictionResult.disease = pf_selectedDisease


\* C27: in PatientDashboard currentResult is null whenever the active tab
\* is not 'predict'.
C27_NoResultOffPredictTab ==
  pd_activeTab # "predict" => pd_currentResult = NoResult


\* C28: in PatientDashboard statsLoading is true whenever a stats request
\* is in flight.
C28_StatsLoadingWhileInFlight ==
  pd_statsInFlight > 0 => pd_statsLoading


\* C29: on every connection a leave_chat_room has been emitted only if a
\* join_chat_room for the connection's room was emitted before it.
C29_LeaveOnlyAfterJoin ==
  \A n \in DOMAIN ch_socks : ch_socks[n].leaves > 0 => ch_socks[n].joins > 0


\* The ids with a status update in flight in ConsultationManager.
CMInFlightIds == {r.id : r \in BagToSet(cm_req)}

\* C30: in ConsultationManager at most one status update per consultation
\* is in flight; updatingStatus[id] is true exactly while one is, also
\* after an update settled with any outcome; the status buttons of a
\* consultation are disabled while it is true.
C30_OneUpdatePerConsultation ==
  /\ \A r \in BagToSet(cm_req) : CopiesIn(r, cm_req) = 1
  /\ \A r1, r2 \in BagToSet(cm_req) : r1.id = r2.id => r1 = r2
  /\ cm_updatingStatus = CMInFlightIds
  /\ \A i \in DOMAIN cm_consultations :
       cm_consultations[i].id \in cm_updatingStatus =>
         CMButtons(cm_consultations[i]) = {}

\* An update of consultation 1 has failed and its flag is lowered again,
\* while an update of consultation 2 is in flight.
C30_Witness ==
  /\ ev.op = "cmStatusResp" /\ ev.outcome = "throw"
  /\ cm_updatingStatus = {2} /\ CMInFlightIds = {2}
  /\ Len(cm_consultations) = 2 /\ CMButtons(cm_consultations[1]) # {}

====
